---------------------------- MODULE Spec2Model ----------------------------
(***************************************************************************)
(* Model of s3-to-webdav: the metadata cache (internal/cache/cache_db.go)  *)
(* and the directory tree synchroniser (internal/sync/sync.go).            *)
(*                                                                         *)
(* Paths are sequences of one-character strings, so that HasPrefix,        *)
(* HasSuffix, SQL LIKE and the byte order of ORDER BY are computed on the   *)
(* characters as the code and SQLite compute them.                         *)
(***************************************************************************)
EXTENDS Integers, Sequences, FiniteSets, TLC

VARIABLES
    cache,      \* table entries: path -> row (the path column is UNIQUE)
    now,        \* time.Now().Unix()
    lastOp,     \* the last cache call made by a client: its arguments and result
    fsDirs,     \* backend: the directories that exist
    fsFiles,    \* backend: file path -> [size, mtime]
    fsFail,     \* backend: directories whose ReadDir currently fails (not NotFound)
    drv,        \* Sync.Sync: position of the driver goroutine
    queue,      \* Sync.Sync: queue (result of ListPendingDirs)
    pending,    \* Sync.Sync: pending (walks in flight)
    wk,         \* the worker goroutines: w -> [pc, dir, infos, err]
    cl,         \* Sync.Clean: position, the directories listed, the one handled
    req,        \* the S3 request being served: [pc, path, info, status]
    hist        \* history of the run: what the claims speak about

vars == <<cache, now, lastOp, fsDirs, fsFiles, fsFail, drv, queue, pending, wk,
          cl, req, hist>>

syncVars == <<fsDirs, fsFiles, fsFail, drv, queue, pending, wk, cl, req, hist>>

------------------------------------------------------------------------------
(* Bounds of the model *)

\* calls of Sync.Sync in a row
MaxRuns == 2

\* interruptions of a running Sync
MaxCrashes == 1

\* failures injected into one behaviour
MaxFaults == 1

\* the clock runs from 0 to MaxNow
MaxNow == 1

\* objects in one call of Insert
MaxBatch == 2

\* the largest limit passed to List
MaxLimit == 2

\* calls of Sync.Clean in one behaviour
MaxCleans == 1

\* S3 requests in one behaviour
MaxReqs == 2

\* the requests of one paging through a listing (TestListAll allows 10)
MaxPages == 5

------------------------------------------------------------------------------
(* Strings *)

Max(a, b) == IF a >= b THEN a ELSE b

\* byte value of a character; "\xFF" is written "0xFF"
Ord(ch) ==
    CASE ch = "%" -> 37
      [] ch = "/" -> 47
      [] ch = "_" -> 95
      [] ch = "a" -> 97
      [] ch = "b" -> 98
      [] ch = "c" -> 99
      [] ch = "d" -> 100
      [] ch = "e" -> 101
      [] ch = "f" -> 102
      [] ch = "g" -> 103
      [] ch = "~" -> 126
      [] ch = "0xFF" -> 255

HasPrefix(s, p) == Len(p) <= Len(s) /\ SubSeq(s, 1, Len(p)) = p

HasSuffix(s, p) == Len(p) <= Len(s) /\ SubSeq(s, Len(s) - Len(p) + 1, Len(s)) = p

Slash == <<"/">>

\* byte-wise string comparison (SQLite BINARY collation, Go string <)
RECURSIVE StrLess(_, _)
StrLess(s, t) ==
    IF t = <<>> THEN FALSE
    ELSE IF s = <<>> THEN TRUE
    ELSE IF Head(s) = Head(t) THEN StrLess(Tail(s), Tail(t))
    ELSE Ord(Head(s)) < Ord(Head(t))

\* SQL LIKE with case_sensitive_like = ON and no ESCAPE: '%' matches any
\* sequence of characters, '_' any single character
RECURSIVE Like(_, _)
Like(s, pat) ==
    IF pat = <<>> THEN s = <<>>
    ELSE IF Head(pat) = "%"
         THEN \E k \in 0..Len(s) : Like(SubSeq(s, k + 1, Len(s)), Tail(pat))
    ELSE IF s = <<>> THEN FALSE
    ELSE /\ (Head(pat) = "_" \/ Head(pat) = Head(s))
         /\ Like(Tail(s), Tail(pat))

\* ORDER BY path: the paths of S in ascending byte order
RECURSIVE SortPaths(_)
SortPaths(S) ==
    IF S = {} THEN <<>>
    ELSE LET m == CHOOSE x \in S : \A y \in S : x = y \/ StrLess(x, y)
         IN  <<m>> \o SortPaths(S \ {m})

\* LIMIT n
Limit(q, n) == IF Len(q) > n THEN SubSeq(q, 1, n) ELSE q

\* runs of '/' collapse to one
RECURSIVE CollapseSlashes(_)
CollapseSlashes(s) ==
    IF Len(s) <= 1 THEN s
    ELSE IF Head(s) = "/" /\ Head(Tail(s)) = "/" THEN CollapseSlashes(Tail(s))
    ELSE <<Head(s)>> \o CollapseSlashes(Tail(s))

\* filepath.Clean on the paths that occur (no "." or ".." elements): runs of
\* '/' collapse to one and a trailing '/' is dropped
Clean(s) ==
    LET c == CollapseSlashes(s)
    IN  IF Len(c) > 1 /\ c[Len(c)] = "/" THEN SubSeq(c, 1, Len(c) - 1) ELSE c

\* filepath.Join(dir, name)
Join(dir, name) == Clean(dir \o Slash \o name)

------------------------------------------------------------------------------
(* The cache: internal/cache/cache_db.go *)

\* a row of table entries, without its path
Row(size, lastModified, isDir, updatedAt, processed) ==
    [size |-> size, last_modified |-> lastModified, is_dir |-> isDir,
     updated_at |-> updatedAt, processed |-> processed]

\* fs.EntryInfo
EntryInfo(path, size, lastModified, isDir, processed) ==
    [Path |-> path, Size |-> size, LastModified |-> lastModified,
     IsDir |-> isDir, Processed |-> processed]

EmptyCache == [p \in {} |-> Row(0, 0, FALSE, 0, FALSE)]

\* INSERT ... ON CONFLICT DO UPDATE SET ... with is_dir taken from the argument
UpsertDropProcessed(c, obj, t) ==
    IF obj.Path \in DOMAIN c
    THEN [c EXCEPT ![obj.Path] =
            Row(obj.Size, Max(obj.LastModified, c[obj.Path].last_modified),
                obj.IsDir, t, obj.Processed)]
    ELSE [p \in DOMAIN c \cup {obj.Path} |->
            IF p = obj.Path
            THEN Row(obj.Size, obj.LastModified, obj.IsDir, t, obj.Processed)
            ELSE c[p]]

\* an upsert that adds the size given to the size of the row
UpsertAddsSize(c, obj, t) ==
    IF obj.Path \in DOMAIN c
    THEN [c EXCEPT ![obj.Path] =
            Row(c[obj.Path].size + obj.Size,
                Max(obj.LastModified, c[obj.Path].last_modified),
                obj.IsDir, t, obj.Processed \/ c[obj.Path].processed)]
    ELSE [p \in DOMAIN c \cup {obj.Path} |->
            IF p = obj.Path
            THEN Row(obj.Size, obj.LastModified, obj.IsDir, t, obj.Processed)
            ELSE c[p]]

\* the INSERT ... ON CONFLICT DO UPDATE statement of Insert, for one object
Upsert(c, obj, t) ==
    IF obj.Path \in DOMAIN c
    THEN [c EXCEPT ![obj.Path] =
            Row(obj.Size,
                Max(obj.LastModified, c[obj.Path].last_modified),
                obj.IsDir,
                t,
                obj.Processed \/ c[obj.Path].processed)]
    ELSE [p \in DOMAIN c \cup {obj.Path} |->
            IF p = obj.Path
            THEN Row(obj.Size, obj.LastModified, obj.IsDir, t, obj.Processed)
            ELSE c[p]]

\* the checks Insert makes on an object before it executes the statement
ValidEntryNoSlashCheck(obj) ==
    /\ ~HasPrefix(obj.Path, Slash)
    /\ (~obj.IsDir => ~HasSuffix(obj.Path, Slash))

ValidEntry(obj) ==
    /\ ~HasPrefix(obj.Path, Slash)
    /\ IF obj.IsDir THEN HasSuffix(obj.Path, Slash)
                    ELSE ~HasSuffix(obj.Path, Slash)

\* the loop of Insert inside its transaction: tx is the table as the
\* transaction sees it; the result is [ok, cache], and a return before
\* tx.Commit() runs the deferred tx.Rollback(), which leaves c0
RECURSIVE InsertLoopPartial(_, _, _, _)
InsertLoopPartial(c0, tx, objects, t) ==
    IF objects = <<>> THEN [ok |-> TRUE, cache |-> tx]
    ELSE IF ~ValidEntry(Head(objects)) THEN [ok |-> FALSE, cache |-> tx]
    ELSE InsertLoopPartial(c0, Upsert(tx, Head(objects), t), Tail(objects), t)

RECURSIVE InsertLoop(_, _, _, _)
InsertLoop(c0, tx, objects, t) ==
    IF objects = <<>> THEN [ok |-> TRUE, cache |-> tx]
    ELSE IF ~ValidEntry(Head(objects)) THEN [ok |-> FALSE, cache |-> c0]
    ELSE InsertLoop(c0, Upsert(tx, Head(objects), t), Tail(objects), t)

\* cacheDB.Insert
Insert(c, objects, t) ==
    IF Len(objects) = 0 THEN [ok |-> TRUE, cache |-> c]
    ELSE InsertLoop(c, c, objects, t)

\* cacheDB.Stat: [ok, entry]
Stat(c, path) ==
    IF HasPrefix(path, Slash) \/ path \notin DOMAIN c
    THEN [ok |-> FALSE, entry |-> EntryInfo(<<>>, 0, 0, FALSE, FALSE)]
    ELSE [ok |-> TRUE,
          entry |-> EntryInfo(path, c[path].size, c[path].last_modified,
                              c[path].is_dir, c[path].processed)]

\* the rows selected by "path LIKE ?" with argument prefix + "%"
LikePrefix(c, prefix) == {p \in DOMAIN c : Like(p, prefix \o <<"%">>)}

RECURSIVE SumSize(_, _)
SumSize(c, S) ==
    IF S = {} THEN 0
    ELSE LET p == CHOOSE x \in S : TRUE IN c[p].size + SumSize(c, S \ {p})

\* cacheDB.GetStats: [ok, processed, pending, totalSize]
GetStats(c, prefix) ==
    IF HasPrefix(prefix, Slash) \/ ~HasSuffix(prefix, Slash)
    THEN [ok |-> FALSE, processed |-> 0, pending |-> 0, totalSize |-> 0]
    ELSE LET S == LikePrefix(c, prefix)
         IN  [ok |-> TRUE,
              processed |-> Cardinality({p \in S : c[p].processed}),
              pending |-> Cardinality({p \in S : ~c[p].processed}),
              totalSize |-> SumSize(c, S)]

\* cacheDB.ListPendingDirs: [ok, dirs], dirs the paths of the entries returned
ListPendingDirs(c, prefix, limit) ==
    IF HasPrefix(prefix, Slash) \/ ~HasSuffix(prefix, Slash)
    THEN [ok |-> FALSE, dirs |-> <<>>]
    ELSE [ok |-> TRUE,
          dirs |-> Limit(SortPaths({p \in LikePrefix(c, prefix) :
                                       ~c[p].processed /\ c[p].is_dir}), limit)]

\* cacheDB.DeleteDanglingFiles: [ok, n, cache]
DeleteDanglingFiles(c, prefix) ==
    IF HasPrefix(prefix, Slash) \/ ~HasSuffix(prefix, Slash)
    THEN [ok |-> FALSE, n |-> 0, cache |-> c]
    ELSE LET D == {p \in LikePrefix(c, prefix) : ~c[p].is_dir /\ ~c[p].processed}
         IN  [ok |-> TRUE, n |-> Cardinality(D),
              cache |-> [p \in DOMAIN c \ D |-> c[p]]]

\* SetProcessed that never takes the recursive branch
SetProcessedSingleRow(c, prefix, recursive, processed) ==
    IF HasPrefix(prefix, Slash)
    THEN [ok |-> FALSE, n |-> 0, cache |-> c]
    ELSE LET U == {p \in DOMAIN c : p = prefix /\ c[p].processed # processed}
         IN  [ok |-> TRUE, n |-> Cardinality(U),
              cache |-> [p \in DOMAIN c |->
                            IF p \in U THEN [c[p] EXCEPT !.processed = processed]
                            ELSE c[p]]]

\* SetProcessed whose UPDATE has no "processed <> ?": every row it
\* selects is counted
SetProcessedCountsAll(c, prefix, recursive, processed) ==
    IF HasPrefix(prefix, Slash)
    THEN [ok |-> FALSE, n |-> 0, cache |-> c]
    ELSE LET S == IF HasSuffix(prefix, Slash) /\ recursive
                  THEN LikePrefix(c, prefix)
                  ELSE {p \in DOMAIN c : p = prefix}
         IN  [ok |-> TRUE, n |-> Cardinality(S),
              cache |-> [p \in DOMAIN c |->
                            IF p \in S THEN [c[p] EXCEPT !.processed = processed]
                            ELSE c[p]]]

\* cacheDB.SetProcessed: [ok, n, cache]
SetProcessed(c, prefix, recursive, processed) ==
    IF HasPrefix(prefix, Slash)
    THEN [ok |-> FALSE, n |-> 0, cache |-> c]
    ELSE LET S == IF HasSuffix(prefix, Slash) /\ recursive
                  THEN LikePrefix(c, prefix)
                  ELSE {p \in DOMAIN c : p = prefix}
             U == {p \in S : c[p].processed # processed}
         IN  [ok |-> TRUE, n |-> Cardinality(U),
              cache |-> [p \in DOMAIN c |->
                            IF p \in U THEN [c[p] EXCEPT !.processed = processed]
                            ELSE c[p]]]

\* Delete that commits whatever the number of rows deleted
DeleteNoRowCheck(c, path) ==
    IF HasPrefix(path, Slash) THEN [ok |-> FALSE, cache |-> c]
    ELSE LET D == IF HasSuffix(path, Slash)
                  THEN LikePrefix(c, path)
                  ELSE {p \in DOMAIN c : p = path}
         IN  [ok |-> TRUE, cache |-> [p \in DOMAIN c \ D |-> c[p]]]

\* Delete with the check that is commented out in the source: no row
\* deleted is an error
DeleteMissingFails(c, path) ==
    IF HasPrefix(path, Slash) THEN [ok |-> FALSE, cache |-> c]
    ELSE LET D == IF HasSuffix(path, Slash)
                  THEN LikePrefix(c, path)
                  ELSE {p \in DOMAIN c : p = path}
         IN  IF Cardinality(D) = 1
             THEN [ok |-> TRUE, cache |-> [p \in DOMAIN c \ D |-> c[p]]]
             ELSE [ok |-> FALSE, cache |-> c]

\* a Delete that deletes no row
DeleteNothing(c, path) == [ok |-> TRUE, cache |-> c]

\* cacheDB.Delete: [ok, cache]; the transaction is committed only when
\* exactly one row was deleted
Delete(c, path) ==
    IF HasPrefix(path, Slash) THEN [ok |-> FALSE, cache |-> c]
    ELSE LET D == IF HasSuffix(path, Slash)
                  THEN LikePrefix(c, path)
                  ELSE {p \in DOMAIN c : p = path}
         IN  IF Cardinality(D) = 0 THEN [ok |-> TRUE, cache |-> c]
             ELSE IF Cardinality(D) > 1 THEN [ok |-> FALSE, cache |-> c]
             ELSE [ok |-> TRUE, cache |-> [p \in DOMAIN c \ D |-> c[p]]]

\* SQL rtrim(path, '/')
RECURSIVE RTrimSlash(_)
RTrimSlash(p) ==
    IF p # <<>> /\ p[Len(p)] = "/" THEN RTrimSlash(SubSeq(p, 1, Len(p) - 1)) ELSE p

\* the WHERE clause of List with a marker that is itself returned again
ListWhereMarkerInclusive(c, prefix, marker, dirOnly, p) ==
    /\ marker # <<>> => (p = marker \/ StrLess(marker, p))
    /\ prefix # <<>> => StrLess(prefix, p) /\ StrLess(p, prefix \o <<"0xFF">>)
    /\ IF dirOnly
       THEN ~Like(RTrimSlash(p), prefix \o <<"%", "/", "%">>)
       ELSE ~c[p].is_dir

\* the WHERE clause of List without the condition on rtrim(path, '/')
ListWhereAnyDepth(c, prefix, marker, dirOnly, p) ==
    /\ marker # <<>> => StrLess(marker, p)
    /\ prefix # <<>> => StrLess(prefix, p) /\ StrLess(p, prefix \o <<"0xFF">>)
    /\ dirOnly \/ ~c[p].is_dir

\* the WHERE clause List builds, for the row with path p
ListWhere(c, prefix, marker, dirOnly, p) ==
    /\ marker # <<>> => StrLess(marker, p)
    /\ prefix # <<>> => StrLess(prefix, p) /\ StrLess(p, prefix \o <<"0xFF">>)
    /\ IF dirOnly
       THEN ~Like(RTrimSlash(p), prefix \o <<"%", "/", "%">>)
       ELSE ~c[p].is_dir

\* the end of List when the query asks for limit rows, not limit + 1
ListTruncateNoExtraRow(sorted, limit) ==
    [ok |-> TRUE, entries |-> Limit(sorted, limit), truncated |-> FALSE]

\* the end of List: the query returned LIMIT limit + 1 rows of sorted; the
\* extra row is dropped and reported as truncated
ListTruncate(sorted, limit) ==
    LET files == Limit(sorted, limit + 1)
        truncated == Len(files) > limit
    IN  [ok |-> TRUE,
         entries |-> IF truncated THEN SubSeq(files, 1, limit) ELSE files,
         truncated |-> truncated]

\* cacheDB.List: [ok, entries, truncated], entries the paths of the entries
\* returned
List(c, prefix, marker, dirOnly, limit) ==
    IF \/ HasPrefix(prefix, Slash)
       \/ (~HasSuffix(prefix, Slash) /\ prefix # <<>>)
       \/ HasPrefix(marker, Slash)
    THEN [ok |-> FALSE, entries |-> <<>>, truncated |-> FALSE]
    ELSE ListTruncate(
            SortPaths({p \in DOMAIN c : ListWhere(c, prefix, marker, dirOnly, p)}),
            limit)

\* SQL rtrim(path, replace(path, '/', '')): the characters of the path other
\* than '/' are removed from its right end
RECURSIVE RTrimNonSlash(_)
RTrimNonSlash(p) ==
    IF p # <<>> /\ p[Len(p)] # "/" THEN RTrimNonSlash(SubSeq(p, 1, Len(p) - 1)) ELSE p

\* ORDER BY path DESC
Reverse(q) == [i \in 1..Len(q) |-> q[Len(q) + 1 - i]]

\* cacheDB.ListDanglingDirs: [ok, dirs], dirs the paths of the entries returned
ListDanglingDirs(c, prefix, limit) ==
    IF HasPrefix(prefix, Slash) \/ ~HasSuffix(prefix, Slash)
    THEN [ok |-> FALSE, dirs |-> <<>>]
    ELSE LET parents == {RTrimNonSlash(p) : p \in LikePrefix(c, prefix)}
         IN  [ok |-> TRUE,
              dirs |-> Limit(Reverse(SortPaths(
                          {p \in LikePrefix(c, prefix) :
                              /\ c[p].processed
                              /\ c[p].is_dir
                              /\ (p \o Slash) \notin parents})), limit)]

------------------------------------------------------------------------------
(* The backend: fs.Fs, as the synchroniser uses it *)

\* the directory part of a path, with its trailing '/': "b/d/g" and "b/d/e/"
\* both give "b/d/"
RECURSIVE DirOf(_)
DirOf(p) ==
    IF p = <<>> THEN <<>>
    ELSE LET q == SubSeq(p, 1, Len(p) - 1)
         IN  IF q = <<>> \/ q[Len(q)] = "/" THEN q ELSE DirOf(q)

\* the last element of a path, without slashes
BaseName(p) ==
    LET q == IF HasSuffix(p, Slash) THEN SubSeq(p, 1, Len(p) - 1) ELSE p
    IN  SubSeq(q, Len(DirOf(p)) + 1, Len(q))

\* os.FileInfo
FileInfo(name, size, modTime, isDir) ==
    [Name |-> name, Size |-> size, ModTime |-> modTime, IsDir |-> isDir]

\* what a backend reports as the size of a directory (a local filesystem
\* reports the size of the directory file, the fake WebDAV server 0)
DirInfoSize == 4096

\* Fs.ReadDir(path): [status, infos], the children in name order
ReadDir(dirs, files, failing, path) ==
    IF path \in failing THEN [status |-> "error", infos |-> <<>>]
    ELSE IF path \notin dirs THEN [status |-> "notfound", infos |-> <<>>]
    ELSE LET kids == {p \in (dirs \cup DOMAIN files) : p # path /\ DirOf(p) = path}
             order == SortPaths(kids)
         IN  [status |-> "ok",
              infos |-> [i \in 1..Len(order) |->
                  IF order[i] \in dirs
                  THEN FileInfo(BaseName(order[i]), DirInfoSize, 1, TRUE)
                  ELSE FileInfo(BaseName(order[i]), files[order[i]].size,
                                files[order[i]].mtime, FALSE)]]

\* Fs.Stat(path): [ok, info]; getFullPath cleans the path
FsStat(dirs, files, path) ==
    LET q == Clean(path)
    IN  IF q \in DOMAIN files
        THEN [ok |-> TRUE,
              info |-> FileInfo(BaseName(q), files[q].size, files[q].mtime, FALSE)]
        ELSE IF (q \o Slash) \in dirs
        THEN [ok |-> TRUE, info |-> FileInfo(BaseName(q), DirInfoSize, 1, TRUE)]
        ELSE [ok |-> FALSE, info |-> FileInfo(<<>>, 0, 0, FALSE)]

\* the directories above a backend path, each with its trailing '/'
ParentDirs(q) == {SubSeq(q, 1, k) : k \in {j \in 1..(Len(q) - 1) : q[j] = "/"}}

\* a ReadStream that opens what does not exist
ReadStreamAnything(dirs, files, path) == [ok |-> TRUE]

\* Fs.ReadStream(path): os.Open succeeds on what exists
ReadStream(dirs, files, path) ==
    LET q == Clean(path)
    IN  [ok |-> q \in DOMAIN files \/ (q \o Slash) \in dirs]

\* a stream read to its end: the bytes and the error of the last Read
Stream(data, err) == [data |-> data, err |-> err]

\* Fs.WriteStream(path, stream): [ok, err, dirs, files]. os.MkdirAll fails
\* when a file stands where a parent directory is needed, before the stream
\* is read; the stream is copied to a temporary file, which is dropped when
\* a Read fails with the error of the stream; os.Rename fails when the target
\* is a directory
WriteStream(dirs, files, path, stream, t) ==
    LET q == Clean(path)
    IN  IF \E a \in ParentDirs(q) : RTrimSlash(a) \in DOMAIN files
        THEN [ok |-> FALSE, err |-> "mkdir", dirs |-> dirs, files |-> files]
        ELSE IF stream.err # "EOF"
        THEN [ok |-> FALSE, err |-> stream.err,
              dirs |-> dirs \cup ParentDirs(q), files |-> files]
        ELSE IF (q \o Slash) \in dirs
        THEN [ok |-> FALSE, err |-> "rename",
              dirs |-> dirs \cup ParentDirs(q), files |-> files]
        ELSE [ok |-> TRUE, err |-> "",
              dirs |-> dirs \cup ParentDirs(q),
              files |-> [f \in DOMAIN files \cup {q} |->
                            IF f = q THEN [size |-> Len(stream.data), mtime |-> t]
                            ELSE files[f]]]

\* a Remove that reports what is not there as an error other than NotFound
RemoveNotFoundIsError(dirs, files, path) ==
    LET q == Clean(path)
        d == q \o Slash
    IN  IF q \in DOMAIN files
        THEN [status |-> "ok", dirs |-> dirs,
              files |-> [f \in DOMAIN files \ {q} |-> files[f]]]
        ELSE IF d \in dirs /\ ~\E x \in (dirs \cup DOMAIN files) : x # d /\ HasPrefix(x, d)
        THEN [status |-> "ok", dirs |-> dirs \ {d}, files |-> files]
        ELSE [status |-> "error", dirs |-> dirs, files |-> files]

\* Fs.Remove(path): [status, dirs, files]. os.Remove removes a file or an
\* empty directory
Remove(dirs, files, path) ==
    LET q == Clean(path)
        d == q \o Slash
    IN  IF q \in DOMAIN files
        THEN [status |-> "ok", dirs |-> dirs,
              files |-> [f \in DOMAIN files \ {q} |-> files[f]]]
        ELSE IF d \notin dirs
        THEN [status |-> "notfound", dirs |-> dirs, files |-> files]
        ELSE IF \E x \in (dirs \cup DOMAIN files) : x # d /\ HasPrefix(x, d)
        THEN [status |-> "error", dirs |-> dirs, files |-> files]
        ELSE [status |-> "ok", dirs |-> dirs \ {d}, files |-> files]

------------------------------------------------------------------------------
(* The synchroniser: internal/sync/sync.go *)

\* the bucket that is synchronised
Bucket == <<"b">>

\* prefix := bucket + "/"
Prefix == Bucket \o Slash

\* const maxParallel = 2
maxParallel == 2

\* the limit Sync passes to ListPendingDirs
pendingLimit == 50

Workers == 1..maxParallel

\* walkDir: the entry built for one child of path
WalkEntryAllProcessed(path, info) ==
    EntryInfo(IF info.IsDir THEN Join(path, info.Name) \o Slash
                            ELSE Join(path, info.Name),
              info.Size, info.ModTime, info.IsDir, TRUE)

WalkEntry(path, info) ==
    EntryInfo(IF info.IsDir THEN Join(path, info.Name) \o Slash
                            ELSE Join(path, info.Name),
              info.Size, info.ModTime, info.IsDir, ~info.IsDir)

\* walkDir: batchInfos
BatchInfos(path, infos) == [i \in 1..Len(infos) |-> WalkEntry(path, infos[i])]

\* a goroutine of the pool that is not running
WorkerOff == [pc |-> "off", dir |-> <<>>, infos |-> <<>>, err |-> FALSE]

\* a root entry that is inserted as processed
RootEntryProcessed(t) == EntryInfo(Prefix, 0, t, TRUE, TRUE)

\* Sync.Sync: the root entry it inserts when Stat fails or is not a directory
RootEntry(t) == EntryInfo(Prefix, 0, t, TRUE, FALSE)

\* a call of Sync.Sync(bucket); a run that follows a completed one starts a
\* new history, a run that follows an interruption continues it
SyncStart ==
    /\ drv \in {"idle", "returned"}
    /\ hist.runs < MaxRuns
    /\ drv' = "statRoot"
    /\ hist' = [hist EXCEPT !.runs = @ + 1,
                            !.start = IF hist.crashes > 0 /\ drv = "idle"
                                      THEN @ ELSE cache,
                            !.before = cache,
                            !.walked = {}, !.failed = {}, !.errs = FALSE,
                            !.early = FALSE]
    /\ UNCHANGED <<cl, req, cache, now, lastOp, fsDirs, fsFiles, fsFail, queue, pending, wk>>

\* sync.go:95: ws.db.Stat(prefix)
DrvStatRoot ==
    /\ drv = "statRoot"
    /\ LET st == Stat(cache, Prefix)
       IN  drv' = IF ~st.ok \/ ~st.entry.IsDir THEN "insertRoot" ELSE "getStats"
    /\ UNCHANGED <<cl, req, cache, now, lastOp, fsDirs, fsFiles, fsFail, queue, pending, wk, hist>>

\* sync.go:96-107: insert the root entry
DrvInsertRoot ==
    /\ drv = "insertRoot"
    /\ LET r == Insert(cache, <<RootEntry(now)>>, now)
       IN  /\ cache' = r.cache
           /\ drv' = IF r.ok THEN "getStats" ELSE "returned"
           /\ hist' = [hist EXCEPT !.errs = @ \/ ~r.ok]
    /\ UNCHANGED <<cl, req, now, lastOp, fsDirs, fsFiles, fsFail, queue, pending, wk>>

\* GetStats whose pending count is not looked at
DrvGetStatsNoSkip ==
    /\ drv = "getStats"
    /\ drv' = "list"
    /\ wk' = [w \in Workers |-> [WorkerOff EXCEPT !.pc = "range"]]
    /\ UNCHANGED <<cl, req, cache, now, lastOp, fsDirs, fsFiles, fsFail, queue, pending, hist>>

\* sync.go:109-137: GetStats; return when nothing is pending, otherwise
\* start the workers
DrvGetStats ==
    /\ drv = "getStats"
    /\ LET st == GetStats(cache, Prefix)
       IN  IF ~st.ok \/ st.pending = 0
           THEN /\ drv' = "returned"
                /\ hist' = [hist EXCEPT !.errs = @ \/ ~st.ok, !.early = TRUE]
                /\ UNCHANGED wk
           ELSE /\ drv' = "list"
                /\ wk' = [w \in Workers |-> [WorkerOff EXCEPT !.pc = "range"]]
                /\ UNCHANGED hist
    /\ UNCHANGED <<cl, req, cache, now, lastOp, fsDirs, fsFiles, fsFail, queue, pending>>

\* sync.go:142-150 and 163: ListPendingDirs succeeded
DrvList ==
    /\ drv = "list"
    /\ LET r == ListPendingDirs(cache, Prefix, pendingLimit)
       IN  /\ queue' = r.dirs
           /\ drv' = IF ~r.ok THEN "close"
                     ELSE IF Len(r.dirs) = 0 /\ pending = 0 THEN "close"
                     ELSE IF Len(r.dirs) > 0 THEN "select"
                     ELSE "recv"
    /\ UNCHANGED <<cl, req, cache, now, lastOp, fsDirs, fsFiles, fsFail, pending, wk, hist>>

\* where the driver goes after a case of the select of sync.go:153
AfterSelect(q, n) ==
    IF Len(q) > 0 THEN "select" ELSE IF n > 0 THEN "recv" ELSE "list"

\* sync.go:154-156 with sync.go:129: send <- dir meets a worker's range send
DrvSend(w) ==
    /\ drv = "select"
    /\ Len(queue) > 0
    /\ wk[w].pc = "range"
    /\ wk' = [wk EXCEPT ![w] = [pc |-> "stat", dir |-> queue[Len(queue)],
                                 infos |-> <<>>, err |-> FALSE]]
    /\ queue' = SubSeq(queue, 1, Len(queue) - 1)
    /\ pending' = pending + 1
    /\ drv' = AfterSelect(queue', pending')
    /\ UNCHANGED <<cl, req, cache, now, lastOp, fsDirs, fsFiles, fsFail, hist>>

\* a receive that leaves the counter of walks in flight as it is
DrvRecvKeepsCount(w) ==
    /\ drv \in {"select", "recv"}
    /\ wk[w].pc = "report"
    /\ wk' = [wk EXCEPT ![w] = [WorkerOff EXCEPT !.pc = "range"]]
    /\ pending' = pending
    /\ drv' = IF drv = "recv" THEN "list" ELSE AfterSelect(queue, pending')
    /\ UNCHANGED <<cl, req, cache, now, lastOp, fsDirs, fsFiles, fsFail, queue, hist>>

\* sync.go:157-158 and 165-166 with sync.go:134: <-recv meets a worker's
\* recv <- err
DrvRecv(w) ==
    /\ drv \in {"select", "recv"}
    /\ wk[w].pc = "report"
    /\ wk' = [wk EXCEPT ![w] = [WorkerOff EXCEPT !.pc = "range"]]
    /\ pending' = pending - 1
    /\ drv' = IF drv = "recv" THEN "list" ELSE AfterSelect(queue, pending')
    /\ UNCHANGED <<cl, req, cache, now, lastOp, fsDirs, fsFiles, fsFail, queue, hist>>

\* sync.go:171: close(send)
DrvClose ==
    /\ drv = "close"
    /\ drv' = "wait"
    /\ UNCHANGED <<cl, req, cache, now, lastOp, fsDirs, fsFiles, fsFail, queue, pending, wk, hist>>

\* sync.go:129 and 128: range over the closed channel ends, wg.Done()
WkExit(w) ==
    /\ drv = "wait"
    /\ wk[w].pc = "range"
    /\ wk' = [wk EXCEPT ![w].pc = "exited"]
    /\ UNCHANGED <<cl, req, cache, now, lastOp, fsDirs, fsFiles, fsFail, drv, queue, pending, hist>>

\* sync.go:172-173: wg.Wait() returns when every worker is done
DrvWait ==
    /\ drv = "wait"
    /\ \A w \in Workers : wk[w].pc = "exited"
    /\ drv' = "sweep"
    /\ UNCHANGED <<cl, req, cache, now, lastOp, fsDirs, fsFiles, fsFail, queue, pending, wk, hist>>

\* sync.go:175-187: DeleteDanglingFiles, the final statistics, return nil
DrvSweep ==
    /\ drv = "sweep"
    /\ LET r == DeleteDanglingFiles(cache, Prefix)
       IN  /\ cache' = r.cache
           /\ hist' = [hist EXCEPT !.errs = @ \/ ~r.ok]
    /\ drv' = "returned"
    /\ wk' = [w \in Workers |-> WorkerOff]
    /\ queue' = <<>>
    /\ UNCHANGED <<cl, req, now, lastOp, fsDirs, fsFiles, fsFail, pending>>

\* sync.go:192-194: walkDir ignores an entry that is no pending directory
WkStat(w) ==
    /\ wk[w].pc = "stat"
    /\ LET st == Stat(cache, wk[w].dir)
       IN  wk' = [wk EXCEPT ![w].pc =
                    IF st.ok /\ (~st.entry.IsDir \/ st.entry.Processed)
                    THEN "report" ELSE "readdir"]
    /\ UNCHANGED <<cl, req, cache, now, lastOp, fsDirs, fsFiles, fsFail, drv, queue, pending, hist>>

\* ReadDir of a walkDir that marks the directory processed before its
\* children are inserted
WkReadDirMarksFirst(w) ==
    /\ wk[w].pc = "readdir"
    /\ LET r == ReadDir(fsDirs, fsFiles, fsFail, wk[w].dir)
       IN  /\ wk' = [wk EXCEPT ![w] =
                 [pc |-> CASE r.status = "ok" -> "insert"
                           [] r.status = "notfound" -> "notfound"
                           [] OTHER -> "report",
                  dir |-> wk[w].dir, infos |-> r.infos,
                  err |-> r.status = "error"]]
           /\ cache' = IF r.status = "ok"
                       THEN SetProcessed(cache, wk[w].dir, FALSE, TRUE).cache
                       ELSE cache
           /\ hist' = [hist EXCEPT
                 !.walked = @ \cup {wk[w].dir},
                 !.failed = IF r.status = "error" THEN @ \cup {wk[w].dir} ELSE @,
                 !.errs = @ \/ r.status = "error"]
    /\ UNCHANGED <<cl, req, now, lastOp, fsDirs, fsFiles, fsFail, drv, queue, pending>>

\* sync.go:197-204: ReadDir
WkReadDir(w) ==
    /\ wk[w].pc = "readdir"
    /\ LET r == ReadDir(fsDirs, fsFiles, fsFail, wk[w].dir)
       IN  /\ wk' = [wk EXCEPT ![w] =
                 [pc |-> CASE r.status = "ok" -> "insert"
                           [] r.status = "notfound" -> "notfound"
                           [] OTHER -> "report",
                  dir |-> wk[w].dir, infos |-> r.infos,
                  err |-> r.status = "error"]]
           /\ hist' = [hist EXCEPT
                 !.walked = @ \cup {wk[w].dir},
                 !.failed = IF r.status = "error" THEN @ \cup {wk[w].dir} ELSE @,
                 !.errs = @ \/ r.status = "error"]
    /\ UNCHANGED <<cl, req, cache, now, lastOp, fsDirs, fsFiles, fsFail, drv, queue, pending>>

\* sync.go:198-200: NotFound marks the entry processed
WkNotFound(w) ==
    /\ wk[w].pc = "notfound"
    /\ LET r == SetProcessed(cache, wk[w].dir, FALSE, TRUE)
       IN  /\ cache' = r.cache
           /\ wk' = [wk EXCEPT ![w].pc = "report", ![w].err = ~r.ok]
           /\ hist' = [hist EXCEPT !.notFound = @ \cup {wk[w].dir}]
    /\ UNCHANGED <<cl, req, now, lastOp, fsDirs, fsFiles, fsFail, drv, queue, pending>>

\* sync.go:206-228: the batch of the children is inserted
WkInsert(w) ==
    /\ wk[w].pc = "insert"
    /\ LET r == Insert(cache, BatchInfos(wk[w].dir, wk[w].infos), now)
       IN  /\ cache' = r.cache
           /\ wk' = [wk EXCEPT ![w].pc = IF r.ok THEN "setproc" ELSE "report",
                               ![w].infos = <<>>,
                               ![w].err = ~r.ok]
           /\ hist' = [hist EXCEPT
                 !.errs = @ \/ ~r.ok,
                 !.enumerated = IF r.ok THEN @ \cup {wk[w].dir} ELSE @]
    /\ UNCHANGED <<cl, req, now, lastOp, fsDirs, fsFiles, fsFail, drv, queue, pending>>

\* sync.go:230-235: the directory is marked processed
WkSetProcessed(w) ==
    /\ wk[w].pc = "setproc"
    /\ LET r == SetProcessed(cache, wk[w].dir, FALSE, TRUE)
       IN  /\ cache' = r.cache
           /\ wk' = [wk EXCEPT ![w].pc = "report", ![w].err = ~r.ok]
    /\ UNCHANGED <<cl, req, now, lastOp, fsDirs, fsFiles, fsFail, drv, queue, pending, hist>>

\* the cache is reset for a rescan: SetProcessed(bucket+"/", true, false), as
\* TestSyncNewFilesAdded and runScan do before they synchronise
Rescan ==
    /\ drv = "idle"
    /\ hist.runs = 0
    /\ hist.crashes = 0
    /\ ~hist.rescanned
    /\ cache' = SetProcessed(cache, Prefix, TRUE, FALSE).cache
    /\ hist' = [hist EXCEPT !.rescanned = TRUE]
    /\ UNCHANGED <<cl, req, now, lastOp, fsDirs, fsFiles, fsFail, drv, queue, pending, wk>>

\* the process is killed while Sync runs: the goroutines and their memory are
\* gone, the cache file stays
Crash ==
    /\ drv \notin {"idle", "returned"}
    /\ hist.crashes < MaxCrashes
    /\ drv' = "idle"
    /\ queue' = <<>>
    /\ pending' = 0
    /\ wk' = [w \in Workers |-> WorkerOff]
    /\ hist' = [hist EXCEPT
          !.crashes = @ + 1,
          !.runs = 0,
          !.pendAtCrash = {p \in LikePrefix(cache, Prefix) :
                              cache[p].is_dir /\ ~cache[p].processed}]
    /\ UNCHANGED <<cl, req, cache, now, lastOp, fsDirs, fsFiles, fsFail>>

\* sync.go:143-146: ListPendingDirs returns an error (the database fails)
DrvListFail ==
    /\ drv = "list"
    /\ hist.faults < MaxFaults
    /\ drv' = "close"
    /\ hist' = [hist EXCEPT !.faults = @ + 1, !.errs = TRUE]
    /\ UNCHANGED <<cl, req, cache, now, lastOp, fsDirs, fsFiles, fsFail, queue, pending, wk>>

\* the backend starts to fail for a directory (a connection error, a 5xx)
FsBreak(d) ==
    /\ drv \notin {"idle", "returned"}
    /\ hist.faults < MaxFaults
    /\ d \notin fsFail
    /\ fsFail' = fsFail \cup {d}
    /\ hist' = [hist EXCEPT !.faults = @ + 1]
    /\ UNCHANGED <<cl, req, cache, now, lastOp, fsDirs, fsFiles, drv, queue, pending, wk>>

\* the backend recovers
FsHeal(d) ==
    /\ d \in fsFail
    /\ fsFail' = fsFail \ {d}
    /\ UNCHANGED <<cl, req, cache, now, lastOp, fsDirs, fsFiles, drv, queue, pending, wk, hist>>

\* the limit Clean passes to ListDanglingDirs
danglingLimit == 50

\* Clean is not running; handled are the directories the loop of sync.go:49
\* has gone through since Clean was called
CleanOff ==
    [pc |-> "idle", dirs |-> <<>>, infos |-> 0, err |-> FALSE, handled |-> {}]

\* sync.go:49, 78-81: the next directory of the list, or the next list
CleanNext(c) ==
    [c EXCEPT !.dirs = Tail(@), !.infos = 0,
              !.pc = IF Len(c.dirs) > 1 THEN "readdir" ELSE "list",
              !.handled = @ \cup {Head(c.dirs)}]

\* a call of Sync.Clean(bucket)
CleanStart ==
    /\ cl.pc \in {"idle", "returned"}
    /\ hist.cleans < MaxCleans
    /\ cl' = [CleanOff EXCEPT !.pc = "list"]
    /\ hist' = [hist EXCEPT !.cleans = @ + 1]
    /\ UNCHANGED <<cache, now, lastOp, fsDirs, fsFiles, fsFail, drv, queue,
                   pending, wk, req>>

\* sync.go:42-47: ListDanglingDirs(bucket+"/", 50)
ClList ==
    /\ cl.pc = "list"
    /\ LET r == ListDanglingDirs(cache, Prefix, danglingLimit)
       IN  cl' = IF ~r.ok THEN [CleanOff EXCEPT !.pc = "returned", !.err = TRUE]
                 ELSE IF Len(r.dirs) = 0 THEN [CleanOff EXCEPT !.pc = "returned"]
                 ELSE [cl EXCEPT !.pc = "readdir", !.dirs = r.dirs]
    /\ UNCHANGED <<cache, now, lastOp, fsDirs, fsFiles, fsFail, drv, queue,
                   pending, wk, req, hist>>

\* sync.go:50-61: ReadDir(dir.Path) and the branch it selects; a read error
\* is counted and the directory is left as it is
ClReadDir ==
    /\ cl.pc = "readdir"
    /\ LET r == ReadDir(fsDirs, fsFiles, fsFail, Head(cl.dirs))
       IN  cl' = CASE r.status = "notfound" -> [cl EXCEPT !.pc = "missing"]
                   [] r.status = "error" -> CleanNext(cl)
                   [] Len(r.infos) > 0 ->
                        [cl EXCEPT !.pc = "rescan", !.infos = Len(r.infos)]
                   [] OTHER -> [cl EXCEPT !.pc = "remove"]
    /\ UNCHANGED <<cache, now, lastOp, fsDirs, fsFiles, fsFail, drv, queue,
                   pending, wk, req, hist>>

\* sync.go:52-57: the directory is missing on the backend; an error of
\* Delete is logged
ClMissing ==
    /\ cl.pc = "missing"
    /\ cache' = Delete(cache, Head(cl.dirs)).cache
    /\ cl' = CleanNext(cl)
    /\ UNCHANGED <<now, lastOp, fsDirs, fsFiles, fsFail, drv, queue, pending,
                   wk, req, hist>>

\* sync.go:61-68: the directory has files, it is marked pending
ClRescan ==
    /\ cl.pc = "rescan"
    /\ cache' = SetProcessed(cache, Head(cl.dirs), FALSE, FALSE).cache
    /\ cl' = CleanNext(cl)
    /\ UNCHANGED <<now, lastOp, fsDirs, fsFiles, fsFail, drv, queue, pending,
                   wk, req, hist>>

\* sync.go:70-76: client.Remove(dir.Path + "/")
ClRemove ==
    /\ cl.pc = "remove"
    /\ LET r == Remove(fsDirs, fsFiles, Head(cl.dirs) \o Slash)
       IN  /\ fsDirs' = r.dirs
           /\ fsFiles' = r.files
           /\ cl' = IF r.status = "ok" THEN [cl EXCEPT !.pc = "delete"]
                    ELSE CleanNext(cl)
    /\ UNCHANGED <<cache, now, lastOp, fsFail, drv, queue, pending, wk, req, hist>>

\* sync.go:71: ws.db.Delete(dir.Path), its error is dropped
ClDelete ==
    /\ cl.pc = "delete"
    /\ cache' = Delete(cache, Head(cl.dirs)).cache
    /\ cl' = CleanNext(cl)
    /\ UNCHANGED <<now, lastOp, fsDirs, fsFiles, fsFail, drv, queue, pending,
                   wk, req, hist>>

------------------------------------------------------------------------------
(* The S3 handlers *)

\* PathFromBucketAndKey
PathFromBucketAndKey(bucket, key) ==
    IF bucket = <<>> THEN <<>>
    ELSE IF key = <<>> THEN bucket
    ELSE bucket \o Slash \o key

\* filepath.Dir: the path up to its last '/', cleaned; "." when there is none
FilepathDir(path) ==
    LET idx == {i \in 1..Len(path) : path[i] = "/"}
    IN  IF idx = {} THEN <<".">>
        ELSE LET k == CHOOSE i \in idx : \A j \in idx : j <= i
             IN  IF k = 1 THEN Slash ELSE Clean(SubSeq(path, 1, k - 1))

\* BaseDirEntries that stops below the bucket root
RECURSIVE BaseDirEntriesNoRoot(_)
BaseDirEntriesNoRoot(path) ==
    LET d == FilepathDir(path)
    IN  IF d = <<".">> \/ d = Slash \/ FilepathDir(d) = <<".">> THEN <<>>
        ELSE <<EntryInfo(d \o Slash, 0, 0, TRUE, TRUE)>> \o BaseDirEntriesNoRoot(d)

\* BaseDirEntries whose entries are not processed
RECURSIVE BaseDirEntriesPending(_)
BaseDirEntriesPending(path) ==
    LET d == FilepathDir(path)
    IN  IF d = <<".">> \/ d = Slash THEN <<>>
        ELSE <<EntryInfo(d \o Slash, 0, 0, TRUE, FALSE)>> \o BaseDirEntriesPending(d)

\* BaseDirEntries: a processed directory entry for every directory above path
RECURSIVE BaseDirEntries(_)
BaseDirEntries(path) ==
    LET d == FilepathDir(path)
    IN  IF d = <<".">> \/ d = Slash THEN <<>>
        ELSE <<EntryInfo(d \o Slash, 0, 0, TRUE, TRUE)>> \o BaseDirEntries(d)

\* no request is being served; a request that was served leaves its answer
NoRequest ==
    [pc |-> "idle", op |-> "none", bucket |-> <<>>, path |-> <<>>,
     size |-> 0, mtime |-> 0, status |-> 0, body |-> "", etag |-> <<>>,
     io |-> {}, keys |-> <<>>, deleted |-> <<>>, errors |-> <<>>,
     contents |-> <<>>, prefixes |-> <<>>, truncated |-> FALSE, next |-> <<>>,
     sha |-> <<>>, asked |-> <<>>, inm |-> <<>>]

\* the request a handler starts to serve
Request(op, bucket, path) ==
    [NoRequest EXCEPT !.op = op, !.bucket = bucket, !.path = path]

\* the handler answers
Respond(r, status, body) ==
    [r EXCEPT !.pc = "idle", !.status = status, !.body = body]

\* the buckets of SetBucketMap
bucketMap == {Bucket}

\* an allow-list check that lets every bucket pass
isBucketAllowedAlways(bucket) == TRUE

\* isBucketAllowed
isBucketAllowed(bucket) == bucket \in bucketMap

\* the decimal digits of a natural number, as fmt's %d prints it
RECURSIVE Digits(_)
Digits(n) ==
    LET d == <<"0", "1", "2", "3", "4", "5", "6", "7", "8", "9">>
    IN  IF n < 10 THEN <<d[n + 1]>> ELSE Digits(n \div 10) \o <<d[(n % 10) + 1]>>

\* an ETag that leaves out last_modified
generateETagNoTime(path, size, lastModified) ==
    <<"md5">> \o path \o <<"-">> \o Digits(size)

\* generateETag: the MD5 of "path-size-lastModified"; the digest stands for
\* the string it was computed from
generateETag(path, size, lastModified) ==
    <<"md5">> \o path \o <<"-">> \o Digits(size) \o <<"-">> \o Digits(lastModified)

\* hex.EncodeToString(hasher.Sum(nil)) of the bytes written to the hasher
HexSum(written) == <<"sha256">> \o written

\* a verifier that does not compare at EOF
RECURSIVE HashVerifierReadNoCheck(_, _, _)
HashVerifierReadNoCheck(rest, written, expectedHex) ==
    IF rest = <<>> THEN Stream(written, "EOF")
    ELSE HashVerifierReadNoCheck(Tail(rest), Append(written, Head(rest)), expectedHex)

\* hashVerifier.Read, called until it returns an error: every chunk read is
\* written to the hasher, and at EOF the digest is compared
RECURSIVE HashVerifierRead(_, _, _)
HashVerifierRead(rest, written, expectedHex) ==
    IF rest = <<>>
    THEN Stream(written, IF HexSum(written) # expectedHex THEN "BadDigest" ELSE "EOF")
    ELSE HashVerifierRead(Tail(rest), Append(written, Head(rest)), expectedHex)

\* a PUT without the header X-Amz-Content-Sha256
NoSha == <<>>

\* the body of a PUT, in chunks
Body == <<"p", "q", "r">>

\* the entries of a sequence whose path the cache does not hold
RECURSIVE MissingFrom(_, _)
MissingFrom(c, es) ==
    IF es = <<>> THEN <<>>
    ELSE IF Head(es).Path \in DOMAIN c THEN MissingFrom(c, Tail(es))
    ELSE <<Head(es)>> \o MissingFrom(c, Tail(es))

\* a handler may start
Accepting ==
    /\ req.pc = "idle"
    /\ hist.reqs < MaxReqs

\* HEAD /{bucket}
HeadBucket(bucket) ==
    /\ Accepting
    /\ LET r == Request("HeadBucket", bucket, <<>>)
       IN  req' = IF ~isBucketAllowed(bucket) THEN Respond(r, 404, "NoSuchBucket")
                  ELSE Respond(r, 200, "")
    /\ hist' = [hist EXCEPT !.reqs = @ + 1]
    /\ UNCHANGED <<cache, now, lastOp, fsDirs, fsFiles, fsFail, drv, queue,
                   pending, wk, cl>>

\* the answer of GET and HEAD of an object from its cache entry: 404 when
\* there is no file entry, 304 when If-None-Match is "*" or the ETag
ObjectAnswer(r, c, ifNoneMatch) ==
    LET st == Stat(c, r.path)
        etag == generateETag(st.entry.Path, st.entry.Size, st.entry.LastModified)
    IN  IF ~st.ok \/ st.entry.IsDir THEN Respond(r, 404, "NotFound")
        ELSE IF ifNoneMatch # <<>> /\ (ifNoneMatch = <<"*">> \/ ifNoneMatch = etag)
        THEN [Respond(r, 304, "") EXCEPT !.etag = etag]
        ELSE [Respond(r, 200, "") EXCEPT
                 !.etag = etag, !.size = st.entry.Size,
                 !.mtime = st.entry.LastModified]

\* the limit of a listing: max-keys when it is in 1..1000, else 1000; 0
\* stands for a request without max-keys
MaxKeysLimit(maxKeys) ==
    IF maxKeys > 0 /\ maxKeys <= 1000 THEN maxKeys ELSE 1000

\* the key of a cache path of the bucket
KeyOf(bucket, path) == SubSeq(path, Len(bucket) + 2, Len(path))

\* the entries of a sequence of cache paths that are files (or folders)
SelectDirs(c, paths, isDir) == SelectSeq(paths, LAMBDA p : c[p].is_dir = isDir)

\* the answer of GET /{bucket}: the listing of the cache under bucket/prefix
\* after the marker (V1 marker, V2 continuation-token, both cache paths; V2
\* start-after is a key). With a delimiter only the entries directly under
\* the prefix are listed, the folders as CommonPrefixes. NextMarker or
\* NextContinuationToken (next) is the path of the last entry returned
ListAnswer(r, c, v2, prefix, marker, startAfter, maxKeys, delimiter) ==
    LET from == IF ~v2 \/ marker # <<>> \/ startAfter = <<>> THEN marker
                ELSE PathFromBucketAndKey(r.bucket, startAfter)
        limit == MaxKeysLimit(maxKeys)
        l == List(c, r.bucket \o Slash \o prefix, from, delimiter, limit)
        keys(ps) == [i \in 1..Len(ps) |-> KeyOf(r.bucket, ps[i])]
    IN  IF ~l.ok THEN Respond(r, 500, "InternalError")
        ELSE [Respond(r, 200, IF v2 THEN "ListBucketResultV2" ELSE "ListBucketResult")
                EXCEPT !.contents = keys(SelectDirs(c, l.entries, FALSE)),
                       !.prefixes = keys(SelectDirs(c, l.entries, TRUE)),
                       !.truncated = l.truncated,
                       !.next = IF l.truncated /\ l.entries # <<>>
                                THEN l.entries[Len(l.entries)] ELSE <<>>]

\* GET /{bucket}
ListObjects(bucket, v2, prefix, marker, startAfter, maxKeys, delimiter) ==
    /\ Accepting
    /\ LET r == Request("ListObjects", bucket, bucket)
       IN  req' = IF ~isBucketAllowed(bucket) THEN Respond(r, 404, "NoSuchBucket")
                  ELSE ListAnswer(r, cache, v2, prefix, marker, startAfter,
                                  maxKeys, delimiter)
    /\ hist' = [hist EXCEPT !.reqs = @ + 1]
    /\ UNCHANGED <<cache, now, lastOp, fsDirs, fsFiles, fsFail, drv, queue,
                   pending, wk, cl>>

\* HEAD /{bucket}/{key}
HeadObject(bucket, key, ifNoneMatch) ==
    /\ Accepting
    /\ LET r == [Request("HeadObject", bucket, PathFromBucketAndKey(bucket, key))
                    EXCEPT !.inm = ifNoneMatch]
       IN  req' = IF ~isBucketAllowed(bucket) THEN Respond(r, 404, "NoSuchBucket")
                  ELSE ObjectAnswer(r, cache, ifNoneMatch)
    /\ hist' = [hist EXCEPT !.reqs = @ + 1]
    /\ UNCHANGED <<cache, now, lastOp, fsDirs, fsFiles, fsFail, drv, queue,
                   pending, wk, cl>>

\* GET /{bucket}/{key}: the cache decides whether the object exists
GetObject(bucket, key, ifNoneMatch) ==
    /\ Accepting
    /\ LET r == [Request("GetObject", bucket, PathFromBucketAndKey(bucket, key))
                    EXCEPT !.inm = ifNoneMatch]
           a == ObjectAnswer(r, cache, ifNoneMatch)
       IN  req' = IF ~isBucketAllowed(bucket) THEN Respond(r, 404, "NoSuchBucket")
                  ELSE IF a.status = 200 THEN [a EXCEPT !.pc = "read", !.status = 0]
                  ELSE a
    /\ hist' = [hist EXCEPT !.reqs = @ + 1]
    /\ UNCHANGED <<cache, now, lastOp, fsDirs, fsFiles, fsFail, drv, queue,
                   pending, wk, cl>>

\* GET: the object is streamed from the backend
GetRead ==
    /\ req.pc = "read"
    /\ LET rd == ReadStream(fsDirs, fsFiles, req.path)
           r == [req EXCEPT !.io = @ \cup {"read"}]
       IN  req' = IF rd.ok THEN Respond(r, 200, "")
                  ELSE Respond([r EXCEPT !.etag = <<>>], 404, "NotFound")
    /\ UNCHANGED <<cache, now, lastOp, fsDirs, fsFiles, fsFail, drv, queue,
                   pending, wk, cl, hist>>

\* PUT /{bucket}/{key}: the body, wrapped in the verifier when the header
\* X-Amz-Content-Sha256 is there, is written to the backend
PutWrite(bucket, key, body, sha) ==
    /\ Accepting
    /\ LET path == PathFromBucketAndKey(bucket, key)
           r == [Request("PutObject", bucket, path) EXCEPT !.sha = sha]
           stream == IF sha = NoSha THEN Stream(body, "EOF")
                     ELSE HashVerifierRead(body, <<>>, sha)
           w == WriteStream(fsDirs, fsFiles, path, stream, now)
       IN  IF ~isBucketAllowed(bucket)
           THEN /\ req' = Respond(r, 404, "NoSuchBucket")
                /\ UNCHANGED <<fsDirs, fsFiles>>
           ELSE /\ fsDirs' = w.dirs
                /\ fsFiles' = w.files
                /\ req' = IF w.ok
                          THEN [r EXCEPT !.pc = "stat", !.io = {"write"}]
                          ELSE IF w.err = "BadDigest"
                          THEN Respond([r EXCEPT !.io = {"write"}], 400, "BadDigest")
                          ELSE Respond([r EXCEPT !.io = {"write"}], 500, "InternalError")
    /\ hist' = [hist EXCEPT !.reqs = @ + 1]
    /\ UNCHANGED <<cache, now, lastOp, fsFail, drv, queue, pending, wk, cl>>

\* PUT: the written path is stat'ed
PutStat ==
    /\ req.pc = "stat"
    /\ LET st == FsStat(fsDirs, fsFiles, req.path)
           r == [req EXCEPT !.io = @ \cup {"stat"}]
       IN  req' = IF st.ok
                  THEN [r EXCEPT !.pc = "insert", !.size = st.info.Size,
                                 !.mtime = st.info.ModTime]
                  ELSE Respond(r, 500, "InternalError")
    /\ UNCHANGED <<cache, now, lastOp, fsDirs, fsFiles, fsFail, drv, queue,
                   pending, wk, cl, hist>>

\* PUT: the backend fails to stat the written path
PutStatFails ==
    /\ req.pc = "stat"
    /\ hist.faults < MaxFaults
    /\ req' = Respond([req EXCEPT !.io = @ \cup {"stat"}], 500, "InternalError")
    /\ hist' = [hist EXCEPT !.faults = @ + 1]
    /\ UNCHANGED <<cache, now, lastOp, fsDirs, fsFiles, fsFail, drv, queue,
                   pending, wk, cl>>

\* PUT: the entry is upserted with processed = true and the missing ancestor
\* directories are inserted; the answer carries the ETag of the entry
PutInsert ==
    /\ req.pc = "insert"
    /\ LET dirs == MissingFrom(cache, BaseDirEntries(req.path))
           r == Insert(cache,
                       <<EntryInfo(req.path, req.size, req.mtime, FALSE, TRUE)>>
                           \o dirs, now)
       IN  /\ cache' = r.cache
           /\ req' = IF r.ok
                     THEN [Respond(req, 200, "") EXCEPT
                              !.etag = generateETag(req.path, req.size, req.mtime)]
                     ELSE Respond(req, 500, "InternalError")
           /\ hist' = [hist EXCEPT
                 !.putDirs =
                     IF r.ok THEN @ \cup {dirs[i].Path : i \in 1..Len(dirs)}
                     ELSE @,
                 !.putEtag = IF r.ok THEN generateETag(req.path, req.size, req.mtime)
                             ELSE @]
    /\ UNCHANGED <<now, lastOp, fsDirs, fsFiles, fsFail, drv, queue, pending,
                   wk, cl>>

\* DELETE /{bucket}/{key}: the entry is deleted from the cache first
DelCache(bucket, key) ==
    /\ Accepting
    /\ LET path == PathFromBucketAndKey(bucket, key)
           r == Request("DeleteObject", bucket, path)
       IN  IF ~isBucketAllowed(bucket)
           THEN /\ req' = Respond(r, 404, "NoSuchBucket")
                /\ UNCHANGED cache
           ELSE /\ cache' = Delete(cache, path).cache
                /\ req' = [r EXCEPT !.pc = "remove"]
    /\ hist' = [hist EXCEPT !.reqs = @ + 1]
    /\ UNCHANGED <<now, lastOp, fsDirs, fsFiles, fsFail, drv, queue, pending,
                   wk, cl>>

\* DELETE: then the object is removed from the backend; NotFound is success
DelRemove ==
    /\ req.pc = "remove"
    /\ LET rm == Remove(fsDirs, fsFiles, req.path)
           r == [req EXCEPT !.io = @ \cup {"remove"}]
       IN  /\ fsDirs' = rm.dirs
           /\ fsFiles' = rm.files
           /\ req' = IF rm.status = "error" THEN Respond(r, 500, "InternalError")
                     ELSE Respond(r, 204, "")
    /\ UNCHANGED <<cache, now, lastOp, fsFail, drv, queue, pending, wk, cl, hist>>

\* DELETE: the backend fails to remove the object, with another error than
\* NotFound
DelRemoveFails ==
    /\ req.pc = "remove"
    /\ hist.faults < MaxFaults
    /\ req' = Respond([req EXCEPT !.io = @ \cup {"remove"}], 500, "InternalError")
    /\ hist' = [hist EXCEPT !.faults = @ + 1]
    /\ UNCHANGED <<cache, now, lastOp, fsDirs, fsFiles, fsFail, drv, queue,
                   pending, wk, cl>>

\* POST /{bucket}?delete: the keys of the body are taken one after the other
BulkDelete(bucket, keys) ==
    /\ Accepting
    /\ LET r == Request("BulkDelete", bucket, <<>>)
       IN  req' = IF ~isBucketAllowed(bucket) THEN Respond(r, 404, "NoSuchBucket")
                  ELSE IF keys = <<>> THEN Respond(r, 200, "DeleteResult")
                  ELSE [r EXCEPT !.pc = "bulkCache", !.keys = keys, !.asked = keys]
    /\ hist' = [hist EXCEPT !.reqs = @ + 1]
    /\ UNCHANGED <<cache, now, lastOp, fsDirs, fsFiles, fsFail, drv, queue,
                   pending, wk, cl>>

\* bulk delete: the entry of the next key is deleted from the cache
BulkCache ==
    /\ req.pc = "bulkCache"
    /\ cache' = Delete(cache, PathFromBucketAndKey(req.bucket, Head(req.keys))).cache
    /\ req' = [req EXCEPT !.pc = "bulkRemove"]
    /\ UNCHANGED <<now, lastOp, fsDirs, fsFiles, fsFail, drv, queue, pending,
                   wk, cl, hist>>

\* bulk delete: the object of the key is removed from the backend and the
\* key is listed under Deleted or under Error; after the last key the
\* DeleteResult is sent with status 200
BulkRemove ==
    /\ req.pc = "bulkRemove"
    /\ LET key == Head(req.keys)
           rm == Remove(fsDirs, fsFiles, PathFromBucketAndKey(req.bucket, key))
           r == [req EXCEPT
                   !.io = @ \cup {"remove"},
                   !.keys = Tail(@),
                   !.deleted = IF rm.status = "error" THEN @ ELSE Append(@, key),
                   !.errors = IF rm.status = "error" THEN Append(@, key) ELSE @]
       IN  /\ fsDirs' = rm.dirs
           /\ fsFiles' = rm.files
           /\ req' = IF r.keys = <<>> THEN Respond(r, 200, "DeleteResult")
                     ELSE [r EXCEPT !.pc = "bulkCache"]
    /\ UNCHANGED <<cache, now, lastOp, fsFail, drv, queue, pending, wk, cl, hist>>

------------------------------------------------------------------------------
(* Clients of the cache *)

NoOp == [op |-> "none", args |-> <<>>, ok |-> TRUE, done |-> TRUE]

\* time passes
Tick ==
    /\ now < MaxNow
    /\ now' = now + 1
    /\ UNCHANGED <<cl, req, cache, lastOp, fsDirs, fsFiles, fsFail, drv, queue, pending, wk, hist>>

\* db.Insert(objects...)
CallInsert(objects) ==
    /\ cache' = Insert(cache, objects, now).cache
    /\ UNCHANGED <<cl, req, now, lastOp, fsDirs, fsFiles, fsFail, drv, queue, pending, wk, hist>>

\* db.SetProcessed(path, recursive, processed)
CallSetProcessed(path, recursive, processed) ==
    /\ cache' = SetProcessed(cache, path, recursive, processed).cache
    /\ UNCHANGED <<cl, req, now, lastOp, fsDirs, fsFiles, fsFail, drv, queue, pending, wk, hist>>

\* db.Delete(path)
CallDelete(path) ==
    /\ cache' = Delete(cache, path).cache
    /\ UNCHANGED <<cl, req, now, lastOp, fsDirs, fsFiles, fsFail, drv, queue, pending, wk, hist>>

\* db.DeleteDanglingFiles(prefix)
CallDeleteDanglingFiles(prefix) ==
    /\ cache' = DeleteDanglingFiles(cache, prefix).cache
    /\ UNCHANGED <<cl, req, now, lastOp, fsDirs, fsFiles, fsFail, drv, queue, pending, wk, hist>>

\* the call of db.Insert that lastOp holds is made
ApplyInsert ==
    /\ lastOp.op = "Insert"
    /\ ~lastOp.done
    /\ LET r == Insert(cache, lastOp.args[1], now)
       IN  /\ cache' = r.cache
           /\ lastOp' = [lastOp EXCEPT !.ok = r.ok, !.done = TRUE]
    /\ UNCHANGED <<cl, req, now, fsDirs, fsFiles, fsFail, drv, queue, pending, wk, hist>>

\* a call of the cache that a client is about to make
Call(op, args) ==
    [op |-> op, args |-> args, ok |-> FALSE, done |-> FALSE,
     res |-> <<>>, pre |-> EmptyCache, calls |-> 0]

\* db.Insert(objects...) is called, and called again with the same objects
ApplyInsertTwice ==
    /\ lastOp.op = "InsertTwice"
    /\ ~lastOp.done
    /\ LET r == Insert(cache, lastOp.args[1], now)
       IN  /\ cache' = r.cache
           /\ lastOp' = [lastOp EXCEPT
                 !.ok = r.ok,
                 !.calls = @ + 1,
                 !.pre = IF lastOp.calls = 0 THEN cache ELSE @,
                 !.res = IF lastOp.calls = 0 THEN <<r.cache>> ELSE @,
                 !.done = lastOp.calls = 1]
    /\ UNCHANGED <<cl, req, now, fsDirs, fsFiles, fsFail, drv, queue, pending, wk, hist>>

\* the call that lastOp holds returns: res is its result, pre the table it
\* was made on
Returned(r) ==
    [lastOp EXCEPT !.ok = r.ok, !.done = TRUE, !.res = r, !.pre = cache,
                   !.calls = @ + 1]

\* db.List(prefix, marker, dirOnly, limit)
ApplyList ==
    /\ lastOp.op = "List"
    /\ ~lastOp.done
    /\ lastOp' = Returned(List(cache, lastOp.args[1], lastOp.args[2],
                               lastOp.args[3], lastOp.args[4]))
    /\ UNCHANGED <<cl, req, cache, now, fsDirs, fsFiles, fsFail, drv, queue, pending, wk, hist>>

\* a client pages through a listing: db.List(prefix, marker, false, k) with
\* the marker set to the path of the last entry of the page before
\* (part_011 BenchmarkList); res holds the pages, args[3] the marker
ApplyListPage ==
    /\ lastOp.op = "ListPages"
    /\ ~lastOp.done
    /\ LET r == List(cache, lastOp.args[1], lastOp.args[3], FALSE, lastOp.args[2])
       IN  lastOp' = [lastOp EXCEPT
              !.ok = r.ok,
              !.done = ~r.truncated \/ ~r.ok,
              !.res = Append(@, r.entries),
              !.pre = cache,
              !.calls = @ + 1,
              !.args[3] = IF r.entries = <<>> THEN @
                          ELSE r.entries[Len(r.entries)]]
    /\ UNCHANGED <<cl, req, cache, now, fsDirs, fsFiles, fsFail, drv, queue, pending, wk, hist>>

\* a client pages through the listing of the bucket: GET /b?max-keys=k with
\* marker (V1) or continuation-token (V2) set to the NextMarker or
\* NextContinuationToken of the answer before, until an answer is not
\* truncated (TestListAll); args: V2, max-keys, marker; res: the keys returned
ListAllPage ==
    /\ lastOp.op = "ListAll"
    /\ ~lastOp.done
    /\ lastOp.calls < MaxPages
    /\ req.pc = "idle"
    /\ LET r == Request("ListObjects", Bucket, Bucket)
           a == IF ~isBucketAllowed(Bucket) THEN Respond(r, 404, "NoSuchBucket")
                ELSE ListAnswer(r, cache, lastOp.args[1], <<>>, lastOp.args[3],
                                <<>>, lastOp.args[2], FALSE)
       IN  /\ req' = a
           /\ lastOp' = [lastOp EXCEPT
                  !.ok = a.status = 200,
                  !.done = ~a.truncated,
                  !.res = @ \o a.contents,
                  !.pre = cache,
                  !.calls = @ + 1,
                  !.args[3] = a.next]
    /\ UNCHANGED <<cl, cache, now, fsDirs, fsFiles, fsFail, drv, queue, pending, wk, hist>>

\* db.ListDanglingDirs(prefix, limit)
ApplyListDanglingDirs ==
    /\ lastOp.op = "ListDanglingDirs"
    /\ ~lastOp.done
    /\ lastOp' = Returned(ListDanglingDirs(cache, lastOp.args[1], lastOp.args[2]))
    /\ UNCHANGED <<cl, req, cache, now, fsDirs, fsFiles, fsFail, drv, queue, pending, wk, hist>>

\* db.Delete(path)
ApplyDelete ==
    /\ lastOp.op = "Delete"
    /\ ~lastOp.done
    /\ LET r == Delete(cache, lastOp.args[1])
       IN  /\ cache' = r.cache
           /\ lastOp' = Returned(r)
    /\ UNCHANGED <<cl, req, now, fsDirs, fsFiles, fsFail, drv, queue, pending, wk, hist>>

\* db.DeleteDanglingFiles(prefix)
ApplyDeleteDanglingFiles ==
    /\ lastOp.op = "DeleteDanglingFiles"
    /\ ~lastOp.done
    /\ LET r == DeleteDanglingFiles(cache, lastOp.args[1])
       IN  /\ cache' = r.cache
           /\ lastOp' = Returned(r)
    /\ UNCHANGED <<cl, req, now, fsDirs, fsFiles, fsFail, drv, queue, pending, wk, hist>>

\* db.SetProcessed(path, recursive, processed)
ApplySetProcessed ==
    /\ lastOp.op = "SetProcessed"
    /\ ~lastOp.done
    /\ LET r == SetProcessed(cache, lastOp.args[1], lastOp.args[2], lastOp.args[3])
       IN  /\ cache' = r.cache
           /\ lastOp' = Returned(r)
    /\ UNCHANGED <<cl, req, now, fsDirs, fsFiles, fsFail, drv, queue, pending, wk, hist>>

\* the client makes the call of SetProcessed it has just made once more
RepeatSetProcessed ==
    /\ lastOp.op = "SetProcessed"
    /\ lastOp.done
    /\ lastOp.calls = 1
    /\ lastOp' = [lastOp EXCEPT !.done = FALSE]
    /\ UNCHANGED <<cl, req, cache, now, fsDirs, fsFiles, fsFail, drv, queue, pending, wk, hist>>

------------------------------------------------------------------------------
(* Initial states *)

pB == <<"b", "/">>
pF == <<"b", "/", "f">>
pD == <<"b", "/", "d", "/">>
pG == <<"b", "/", "d", "/", "g">>
pC == <<"c", "/">>
pCf == <<"c", "/", "f">>

\* the paths of the bucket, and the entries of another bucket
SyncPaths == {pB, pF, pD, pG}
OtherPaths == {pC, pCf}

IsDirPath(p) == HasSuffix(p, Slash)

\* an entry left in the cache by an earlier scan
StaleRow(p, processed) ==
    Row(IF IsDirPath(p) THEN 0 ELSE 7, 2, IsDirPath(p), 0, processed)

\* any set of entries of the bucket, each processed or not, beside the
\* entries of another bucket, which are pending
InitCaches ==
    UNION {{[p \in S \cup OtherPaths |->
                StaleRow(p, IF p \in S THEN f[p] ELSE FALSE)] :
            f \in [S -> BOOLEAN]} : S \in SUBSET SyncPaths}

\* any backend tree over the paths of the bucket
InitBackends ==
    {[dirs |-> D, files |-> [p \in F |-> [size |-> 5, mtime |-> 1]]] :
        <<D, F>> \in {x \in (SUBSET {pB, pD}) \X (SUBSET {pF, pG}) :
                        /\ pD \in x[1] => pB \in x[1]
                        /\ pF \in x[2] => pB \in x[1]
                        /\ pG \in x[2] => pD \in x[1]}}

InitHist ==
    [runs |-> 0, crashes |-> 0, faults |-> 0, rescanned |-> FALSE,
     start |-> EmptyCache, before |-> EmptyCache,
     walked |-> {}, failed |-> {}, errs |-> FALSE, early |-> FALSE,
     pendAtCrash |-> {},
     cleans |-> 0, reqs |-> 0,
     enumerated |-> {}, notFound |-> {}, putDirs |-> {}, putEtag |-> <<>>]

\* no Sync is running
SyncIdle ==
    /\ fsFail = {}
    /\ drv = "idle"
    /\ queue = <<>>
    /\ pending = 0
    /\ wk = [w \in Workers |-> WorkerOff]
    /\ cl = CleanOff
    /\ req = NoRequest
    /\ hist = InitHist

InitSync ==
    /\ cache \in InitCaches
    /\ now = 1
    /\ lastOp = NoOp
    /\ \E b \in InitBackends : fsDirs = b.dirs /\ fsFiles = b.files
    /\ SyncIdle

NextSync ==
    \/ SyncStart
    \/ Rescan
    \/ DrvStatRoot
    \/ DrvInsertRoot
    \/ DrvGetStats
    \/ DrvList
    \/ \E w \in Workers : DrvSend(w)
    \/ \E w \in Workers : DrvRecv(w)
    \/ DrvClose
    \/ DrvWait
    \/ DrvSweep
    \/ \E w \in Workers : WkExit(w)
    \/ \E w \in Workers : WkStat(w)
    \/ \E w \in Workers : WkReadDir(w)
    \/ \E w \in Workers : WkNotFound(w)
    \/ \E w \in Workers : WkInsert(w)
    \/ \E w \in Workers : WkSetProcessed(w)

\* Sync with no backend error and no interruption
SpecSync == InitSync /\ [][NextSync]_vars

NextSyncCrash == NextSync \/ Crash

\* Sync that may be interrupted and run again
SpecSyncCrash == InitSync /\ [][NextSyncCrash]_vars

NextSyncFault ==
    \/ NextSync
    \/ DrvListFail
    \/ \E d \in {pB, pD} : FsBreak(d)
    \/ \E d \in {pB, pD} : FsHeal(d)

\* Sync with a failing database or backend
SpecSyncFault == InitSync /\ [][NextSyncFault]_vars

\* the objects clients pass to Insert
CacheInputs ==
    { EntryInfo(pF, 5, 2, FALSE, TRUE),
      EntryInfo(pF, 7, 1, FALSE, FALSE),
      EntryInfo(pB, 0, 1, TRUE, FALSE),
      EntryInfo(pB, 1024, 2, TRUE, TRUE),
      EntryInfo(<<"/", "b">>, 5, 1, FALSE, TRUE),
      EntryInfo(pF, 5, 1, TRUE, TRUE),
      EntryInfo(pB, 5, 1, FALSE, TRUE) }

RECURSIVE SeqsUpTo(_, _)
SeqsUpTo(S, n) ==
    IF n = 0 THEN {<<>>}
    ELSE LET T == SeqsUpTo(S, n - 1)
         IN  T \cup {Append(t, e) : t \in {u \in T : Len(u) = n - 1}, e \in S}

Batches == SeqsUpTo(CacheInputs, MaxBatch)

InitCache ==
    /\ cache = EmptyCache
    /\ now = 0
    /\ lastOp = NoOp
    /\ fsDirs = {}
    /\ fsFiles = EmptyCache
    /\ SyncIdle

NextCache ==
    \/ Tick
    \/ \E objects \in Batches : CallInsert(objects)
    \/ \E path \in {pB, pF}, recursive \in BOOLEAN, processed \in BOOLEAN :
          CallSetProcessed(path, recursive, processed)
    \/ \E path \in {pB, pF} : CallDelete(path)
    \/ CallDeleteDanglingFiles(pB)

\* any sequence of calls of the cache, from the empty cache
SpecCache == InitCache /\ [][NextCache]_vars

\* the caches two calls of Insert and a SetProcessed can leave
CachesAfter(C, t) ==
    C \cup {Insert(c, <<e>>, t).cache : c \in C, e \in CacheInputs}

InsertCaches ==
    LET C2 == CachesAfter(CachesAfter({EmptyCache}, 0), 0)
    IN  C2 \cup {SetProcessed(c, pB, TRUE, v).cache : c \in C2, v \in BOOLEAN}

InitInsert ==
    /\ cache \in InsertCaches
    /\ now \in 0..MaxNow
    /\ \E objects \in Batches :
          lastOp = [op |-> "Insert", args |-> <<objects>>, ok |-> FALSE,
                    done |-> FALSE]
    /\ fsDirs = {}
    /\ fsFiles = EmptyCache
    /\ SyncIdle

\* one call of Insert, on any cache and any batch
SpecInsert == InitInsert /\ [][ApplyInsert]_vars

InitInsertTwice ==
    /\ cache \in InsertCaches
    /\ now = 0
    /\ \E objects \in Batches : lastOp = Call("InsertTwice", <<objects>>)
    /\ fsDirs = {}
    /\ fsFiles = EmptyCache
    /\ SyncIdle

\* two calls of Insert with the same batch, on any cache, at any two times
SpecInsertTwice == InitInsertTwice /\ [][ApplyInsertTwice \/ Tick]_vars

\* the caches of InitCaches in which every entry has its directories above it
CleanCaches ==
    {c \in InitCaches :
        \A p \in DOMAIN c : \A a \in ParentDirs(p) : a \in DOMAIN c}

InitClean ==
    /\ cache \in CleanCaches
    /\ now = 1
    /\ lastOp = NoOp
    /\ \E b \in InitBackends : fsDirs = b.dirs /\ fsFiles = b.files
    /\ fsFail \in SUBSET {pB, pD}
    /\ drv = "idle"
    /\ queue = <<>>
    /\ pending = 0
    /\ wk = [w \in Workers |-> WorkerOff]
    /\ cl = CleanOff
    /\ req = NoRequest
    /\ hist = InitHist

NextClean ==
    \/ CleanStart
    \/ ClList
    \/ ClReadDir
    \/ ClMissing
    \/ ClRescan
    \/ ClRemove
    \/ ClDelete

\* one call of Clean, on any cache and any backend, some of whose
\* directories cannot be read
SpecClean == InitClean /\ [][NextClean]_vars

\* the caches of CleanCaches whose entries of the bucket are all processed
S3Caches ==
    {c \in CleanCaches : \A p \in DOMAIN c : HasPrefix(p, Prefix) => c[p].processed}

\* the buckets and keys of the requests: the bucket "c" is not in the bucket
\* map; "d" is the name of a folder
ReqBuckets == {Bucket, <<"c">>}
ReqKeys == {<<"f">>, <<"d", "/", "g">>, <<"d">>}

\* the values of X-Amz-Content-Sha256: none, the digest of the body, another
ShaHeaders == {NoSha, HexSum(Body), <<"sha256", "p">>}

\* the values of If-None-Match: none, "*", the ETag of the last PUT
IfNoneMatch == {<<>>, <<"*">>, hist.putEtag}

\* the key lists of a bulk delete
BulkKeys == {<<>>, <<<<"f">>>>, <<<<"d">>, <<"f">>>>, <<<<"d", "/", "g">>, <<"d">>>>}

\* the parameters of a listing (TestHandleListObjects): V1 or V2 with
\* max-keys absent (0) or given; a prefix, "d" not ending in '/', with and
\* without delimiter; a marker or continuation-token, which is a cache path;
\* V2 start-after, which is a key
ListRequest(v2, prefix, marker, startAfter, maxKeys, delimiter) ==
    [v2 |-> v2, prefix |-> prefix, marker |-> marker, startAfter |-> startAfter,
     maxKeys |-> maxKeys, delimiter |-> delimiter]

ListRequests ==
    {ListRequest(v2, <<>>, <<>>, <<>>, k, FALSE) : v2 \in BOOLEAN, k \in 0..MaxLimit}
    \cup {ListRequest(FALSE, prefix, <<>>, <<>>, 0, delimiter) :
             prefix \in {<<>>, <<"d", "/">>, <<"d">>}, delimiter \in BOOLEAN}
    \cup {ListRequest(v2, <<>>, pF, <<>>, 0, FALSE) : v2 \in BOOLEAN}
    \cup {ListRequest(TRUE, <<>>, <<>>, <<"d">>, 0, FALSE)}

InitS3 ==
    /\ cache \in S3Caches
    /\ now = 1
    /\ lastOp = NoOp
    /\ \E b \in InitBackends : fsDirs = b.dirs /\ fsFiles = b.files
    /\ SyncIdle

NextS3 ==
    \/ \E bucket \in ReqBuckets : HeadBucket(bucket)
    \/ \E bucket \in ReqBuckets, l \in ListRequests :
          ListObjects(bucket, l.v2, l.prefix, l.marker, l.startAfter, l.maxKeys,
                      l.delimiter)
    \/ \E bucket \in ReqBuckets, key \in ReqKeys, inm \in IfNoneMatch :
          HeadObject(bucket, key, inm)
    \/ \E bucket \in ReqBuckets, key \in ReqKeys, inm \in IfNoneMatch :
          GetObject(bucket, key, inm)
    \/ GetRead
    \/ \E bucket \in ReqBuckets, key \in ReqKeys, sha \in ShaHeaders :
          PutWrite(bucket, key, Body, sha)
    \/ PutStat
    \/ PutStatFails
    \/ PutInsert
    \/ \E bucket \in ReqBuckets, key \in ReqKeys : DelCache(bucket, key)
    \/ DelRemove
    \/ DelRemoveFails
    \/ \E bucket \in ReqBuckets, keys \in BulkKeys : BulkDelete(bucket, keys)
    \/ BulkCache
    \/ BulkRemove

\* S3 requests served one after the other, on any cache and any backend
SpecS3 == InitS3 /\ [][NextS3]_vars

pT == <<"b", "/", "~">>
pE == <<"b", "/", "e">>
pW == <<"b", "/", "_", "/">>

\* the tables the calls are made on: any set of these entries, each
\* processed or not (Insert accepts an entry without its ancestors)
CallCaches ==
    UNION {{[p \in S |-> StaleRow(p, f[p])] : f \in [S -> BOOLEAN]} :
           S \in SUBSET {pB, pF, pD, pG, pT, pCf}}

ListCalls ==
    {Call("List", <<prefix, marker, dirOnly, limit>>) :
        prefix \in {<<>>, pB, pD, <<"b">>},
        marker \in {<<>>, pD, pF, pG},
        dirOnly \in BOOLEAN,
        limit \in 0..MaxLimit}
    \cup {[Call("ListPages", <<prefix, k, <<>>>>) EXCEPT !.ok = TRUE] :
             prefix \in {pB, pD}, k \in 1..MaxLimit}

InitList ==
    /\ cache \in CallCaches
    /\ now = 0
    /\ lastOp \in ListCalls
    /\ fsDirs = {}
    /\ fsFiles = EmptyCache
    /\ SyncIdle

\* one call of List, or one paging through a listing, on any table
SpecList == InitList /\ [][ApplyList \/ ApplyListPage]_vars

\* the pagings through the listing of the bucket: V1 or V2, max-keys absent
\* (0) or given
ListAllCalls ==
    {[Call("ListAll", <<v2, k, <<>>>>) EXCEPT !.ok = TRUE] :
        v2 \in BOOLEAN, k \in 0..MaxLimit}

InitListAll ==
    /\ cache \in CallCaches
    /\ now = 0
    /\ lastOp \in ListAllCalls
    /\ fsDirs = {}
    /\ fsFiles = EmptyCache
    /\ SyncIdle

\* one paging through the listing of the bucket, on any table
SpecListAll == InitListAll /\ [][ListAllPage]_vars

UpdateCalls ==
    {Call("Delete", <<path>>) : path \in {pB, pD, pF, pG, pE, pW, <<"/", "b">>}}
    \cup {Call("ListDanglingDirs", <<prefix, limit>>) :
             prefix \in {pB, pD, pW, <<"b">>}, limit \in 1..MaxLimit}
    \cup {Call("DeleteDanglingFiles", <<prefix>>) :
             prefix \in {pB, pD, pW, pC, <<"b">>}}
    \cup {Call("SetProcessed", <<path, recursive, processed>>) :
             path \in {pB, pD, pF, pE, pW},
             recursive \in BOOLEAN, processed \in BOOLEAN}

InitCall ==
    /\ cache \in CallCaches
    /\ now = 0
    /\ lastOp \in UpdateCalls
    /\ fsDirs = {}
    /\ fsFiles = EmptyCache
    /\ SyncIdle

NextCall ==
    \/ ApplyDelete
    \/ ApplyListDanglingDirs
    \/ ApplyDeleteDanglingFiles
    \/ ApplySetProcessed
    \/ RepeatSetProcessed

\* one call of Delete, ListDanglingDirs, DeleteDanglingFiles or
\* SetProcessed on any table, SetProcessed once more after it returned
SpecCall == InitCall /\ [][NextCall]_vars

\* the calls whose path holds no LIKE wildcard
PlainCalls == {c \in UpdateCalls : c.args[1] # pW}

InitCallPlain ==
    /\ cache \in CallCaches
    /\ now = 0
    /\ lastOp \in PlainCalls
    /\ fsDirs = {}
    /\ fsFiles = EmptyCache
    /\ SyncIdle

\* the calls of SpecCall that are made with the path of an entry or of a
\* directory of the table
SpecCallPlain == InitCallPlain /\ [][NextCall]_vars

\* the keys of the S3 requests: a file of the bucket, a file in a folder, and
\* a key that is the name of the folder
PutKeys == {<<"f">>, <<"d", "/", "g">>, <<"d">>}
DelKeys == {<<"f">>, <<"d", "/", "g">>, <<"d">>}

\* no operation is running
Quiet ==
    /\ drv \in {"idle", "returned"}
    /\ cl.pc \in {"idle", "returned"}
    /\ req.pc = "idle"

InitGateway ==
    /\ cache = EmptyCache
    /\ now = 1
    /\ lastOp = NoOp
    /\ \E b \in InitBackends : fsDirs = b.dirs /\ fsFiles = b.files
    /\ SyncIdle

NextGateway ==
    \/ Quiet /\ SyncStart
    \/ Quiet /\ CleanStart
    \/ Quiet /\ \E key \in PutKeys : PutWrite(Bucket, key, Body, NoSha)
    \/ Quiet /\ \E key \in DelKeys : DelCache(Bucket, key)
    \/ DrvStatRoot
    \/ DrvInsertRoot
    \/ DrvGetStats
    \/ DrvList
    \/ \E w \in Workers : DrvSend(w)
    \/ \E w \in Workers : DrvRecv(w)
    \/ DrvClose
    \/ DrvWait
    \/ DrvSweep
    \/ \E w \in Workers : WkExit(w)
    \/ \E w \in Workers : WkStat(w)
    \/ \E w \in Workers : WkReadDir(w)
    \/ \E w \in Workers : WkNotFound(w)
    \/ \E w \in Workers : WkInsert(w)
    \/ \E w \in Workers : WkSetProcessed(w)
    \/ ClList
    \/ ClReadDir
    \/ ClMissing
    \/ ClRescan
    \/ ClRemove
    \/ ClDelete
    \/ PutStat
    \/ PutInsert
    \/ DelRemove

\* Sync, Clean and the S3 requests PUT and DELETE, one after the other in any
\* order, from the empty cache
SpecGateway == InitGateway /\ [][NextGateway]_vars

------------------------------------------------------------------------------
(* Claims about the cache *)

\* the entries of a batch that carry path p, in the order of the batch
RECURSIVE EntriesAt(_, _)
EntriesAt(objects, p) ==
    IF objects = <<>> THEN <<>>
    ELSE IF Head(objects).Path = p
         THEN <<Head(objects)>> \o EntriesAt(Tail(objects), p)
         ELSE EntriesAt(Tail(objects), p)

SeqMaxLastModified(es, m) ==
    CHOOSE x \in {m} \cup {es[i].LastModified : i \in 1..Len(es)} :
        /\ x >= m
        /\ \A i \in 1..Len(es) : x >= es[i].LastModified

\* what the claim calls an invalid entry
BadEntry(e) ==
    \/ (Len(e.Path) > 0 /\ e.Path[1] = "/")
    \/ ((Len(e.Path) > 0 /\ e.Path[Len(e.Path)] = "/") # e.IsDir)

\* C7: a successful insert is an upsert keyed on path.  For a path that was
\* in the cache, size, is_dir and updated_at are those of the (last) entry
\* inserted, last_modified is the maximum of the existing and the inserted
\* values and processed is the OR of them; for a new path the row is the
\* entry as given.  No insert, successful or not, removes a row, turns
\* processed from true to false or lowers last_modified.
C7_InsertIsUpsert ==
    [][ (lastOp'.done /\ ~lastOp.done) =>
          LET objects == lastOp.args[1]
          IN  /\ lastOp'.ok =>
                   \A p \in {objects[i].Path : i \in 1..Len(objects)} :
                      LET es == EntriesAt(objects, p)
                          last == es[Len(es)]
                      IN  /\ p \in DOMAIN cache'
                          /\ cache'[p].size = last.Size
                          /\ cache'[p].is_dir = last.IsDir
                          /\ cache'[p].updated_at = now
                          /\ IF p \in DOMAIN cache
                             THEN /\ cache'[p].last_modified =
                                       SeqMaxLastModified(es, cache[p].last_modified)
                                  /\ cache'[p].processed =
                                       (cache[p].processed
                                          \/ \E i \in 1..Len(es) : es[i].Processed)
                             ELSE /\ cache'[p].last_modified =
                                       SeqMaxLastModified(es, es[1].LastModified)
                                  /\ cache'[p].processed =
                                       (\E i \in 1..Len(es) : es[i].Processed)
              /\ \A p \in DOMAIN cache :
                   /\ p \in DOMAIN cache'
                   /\ cache[p].processed => cache'[p].processed
                   /\ cache'[p].last_modified >= cache[p].last_modified
      ]_vars

\* C7 witness: an entry with processed=false and an older last_modified was
\* inserted over a processed row; the row kept both and took the new size
C7_Witness ==
    /\ lastOp.op = "Insert" /\ lastOp.done /\ lastOp.ok
    /\ lastOp.args[1] = <<EntryInfo(pF, 7, 1, FALSE, FALSE)>>
    /\ pF \in DOMAIN cache
    /\ cache[pF] = Row(7, 2, FALSE, now, TRUE)
    /\ now = 1

\* C8: insert is all-or-nothing.  A batch that holds an invalid entry (a
\* path starting with '/', a trailing slash that disagrees with is_dir)
\* returns an error and leaves the cache as it was.
C8_InsertAllOrNothing ==
    [][ (lastOp'.done /\ ~lastOp.done
           /\ \E i \in 1..Len(lastOp.args[1]) : BadEntry(lastOp.args[1][i]))
        => (~lastOp'.ok /\ cache' = cache) ]_vars

\* C8 witness: a batch whose first entry is valid and new and whose second
\* entry is invalid was refused, and the first entry is not in the cache
C8_Witness ==
    /\ lastOp.op = "Insert" /\ lastOp.done /\ ~lastOp.ok
    /\ Len(lastOp.args[1]) = 2
    /\ ~BadEntry(lastOp.args[1][1])
    /\ BadEntry(lastOp.args[1][2])
    /\ lastOp.args[1][1].Path \notin DOMAIN cache

\* C9: in every reachable cache state no path begins with '/', and a path
\* ends with '/' exactly when is_dir is true.
C9_PathDiscipline ==
    \A p \in DOMAIN cache :
        /\ ~(Len(p) > 0 /\ p[1] = "/")
        /\ (Len(p) > 0 /\ p[Len(p)] = "/") <=> cache[p].is_dir

\* C9 witness: the cache holds a directory and a file, after calls of Insert
\* of which some were refused
C9_Witness ==
    /\ DOMAIN cache = {pB, pF}
    /\ cache[pB].is_dir
    /\ ~cache[pF].is_dir
    /\ cache[pF].updated_at = MaxNow

\* C10: in every reachable cache state a directory entry has size 0.
C10_DirSizeZero ==
    \A p \in DOMAIN cache : HasSuffix(p, Slash) => cache[p].size = 0

------------------------------------------------------------------------------
(* Claims about the synchroniser *)

\* the entries under the bucket, as the claims mean it: the path begins
\* with bucket + "/"
UnderBucket(c) == {p \in DOMAIN c : HasPrefix(p, Prefix)}

\* the directories above a path, inside the bucket
Ancestors(p) ==
    {SubSeq(p, 1, k) : k \in {j \in Len(Prefix)..(Len(p) - 1) : p[j] = "/"}}

\* sync has returned from a run in which nothing failed
SyncDone == drv = "returned" /\ ~hist.errs

\* the walk of this run reaches backend file f: a directory above f was
\* pending when sync was called (or is the bucket root, which had no entry),
\* and no directory entry between it and f had processed=true
Reached(f) ==
    \E a \in Ancestors(f) :
        /\ \/ (a \in DOMAIN hist.start /\ ~hist.start[a].processed)
           \/ (a = Prefix /\ a \notin DOMAIN hist.start)
        /\ \A d \in Ancestors(f) :
              Len(d) > Len(a) => ~(d \in DOMAIN hist.start /\ hist.start[d].processed)

FilesSwept ==
    /\ \A p \in UnderBucket(cache) : ~cache[p].is_dir => cache[p].processed
    /\ GetStats(cache, Prefix).pending = 0

\* C1 as stated: after sync has returned without error, every file of the
\* backend has a cache entry with the backend's size, no file entry is
\* unprocessed and pending = 0, whatever the cache was before.
C1_AnyInitialCache ==
    SyncDone =>
        /\ \A f \in DOMAIN fsFiles :
              f \in DOMAIN cache /\ cache[f].size = fsFiles[f].size
        /\ FilesSwept

\* C1 amended: after sync has returned without error, every backend file
\* that lies below a directory which was pending when sync was called, with
\* no processed directory entry in between, has a cache entry with the
\* backend's size; no file entry under the bucket is unprocessed; pending = 0.
C1_SyncPostcondition ==
    SyncDone =>
        /\ \A f \in DOMAIN fsFiles :
              Reached(f) => f \in DOMAIN cache /\ cache[f].size = fsFiles[f].size
        /\ FilesSwept

\* C1 witness: a full walk has returned; it found a file the cache did not
\* have, refreshed the size of one it had, and the root had no entry before
C1_Witness ==
    /\ SyncDone /\ ~hist.early
    /\ Prefix \notin DOMAIN hist.start
    /\ pG \in DOMAIN fsFiles /\ pG \notin DOMAIN hist.start
    /\ pG \in DOMAIN cache /\ cache[pG].size = 5
    /\ pF \in DOMAIN fsFiles /\ pF \in DOMAIN hist.start
    /\ hist.start[pF].size = 7 /\ cache[pF].size = 5

\* C2: after SetProcessed(bucket+"/", true, false) and a sync that returned
\* without error, the file entries under the bucket are exactly the files of
\* the backend, and pending = 0.
C2_RescanConverges ==
    (SyncDone /\ hist.rescanned) =>
        /\ {p \in UnderBucket(cache) : ~cache[p].is_dir} = DOMAIN fsFiles
        /\ \A f \in DOMAIN fsFiles : cache[f].size = fsFiles[f].size
        /\ GetStats(cache, Prefix).pending = 0

\* C2 witness: the rescan has returned; a file that vanished from the
\* backend was removed from a cache whose entries were all processed, and a
\* file added out-of-band is present
C2_Witness ==
    /\ SyncDone /\ hist.rescanned /\ hist.runs = 1
    /\ pF \in DOMAIN hist.start /\ pF \notin DOMAIN fsFiles /\ pF \notin DOMAIN cache
    /\ pD \in DOMAIN hist.start
    /\ pG \in DOMAIN fsFiles /\ pG \notin DOMAIN hist.start /\ pG \in DOMAIN cache

\* walkDir as one step
WalkDirEffect(c, d) ==
    LET r == ReadDir(fsDirs, fsFiles, {}, d)
    IN  IF r.status = "notfound" THEN SetProcessed(c, d, FALSE, TRUE).cache
        ELSE SetProcessed(Insert(c, BatchInfos(d, r.infos), now).cache,
                          d, FALSE, TRUE).cache

RECURSIVE WalkAll(_)
WalkAll(c) ==
    LET q == ListPendingDirs(c, Prefix, pendingLimit).dirs
    IN  IF q = <<>> THEN c ELSE WalkAll(WalkDirEffect(c, q[Len(q)]))

\* the cache an uninterrupted sync leaves when it starts from c
UninterruptedSync(c) ==
    LET c1 == IF Stat(c, Prefix).ok THEN c
              ELSE Insert(c, <<RootEntry(now)>>, now).cache
    IN  IF GetStats(c1, Prefix).pending = 0 THEN c1
        ELSE DeleteDanglingFiles(WalkAll(c1), Prefix).cache

\* a cache without the bookkeeping column updated_at
Entries(c) ==
    [p \in DOMAIN c |-> <<c[p].size, c[p].last_modified, c[p].is_dir, c[p].processed>>]

\* C3: when a sync was interrupted and sync is run again to completion, the
\* second run has walked every directory that was pending at the
\* interruption, and the cache is the one an uninterrupted sync leaves.
C3_CrashSafe ==
    (SyncDone /\ hist.crashes > 0 /\ hist.runs = 1) =>
        /\ hist.pendAtCrash \subseteq hist.walked
        /\ Entries(cache) = Entries(UninterruptedSync(hist.start))

\* C3 witness: the interrupted run had found directory b/d/ and not walked
\* it; the second run walked it and found the file below it
C3_Witness ==
    /\ SyncDone /\ hist.crashes = 1 /\ hist.runs = 1
    /\ pD \notin DOMAIN hist.start
    /\ pD \in hist.pendAtCrash
    /\ pD \in hist.walked
    /\ pG \notin DOMAIN hist.start /\ pG \in DOMAIN cache

\* C4: the driver/worker protocol never deadlocks, also after an operation
\* failed: the driver is never blocked in wg.Wait (which only the exit of
\* every worker ends) while a worker is blocked sending its completion on
\* recv (which only the driver receives) and no other worker is running.
C4_NoDeadlock ==
    ~ /\ drv = "wait"
      /\ \E w \in Workers : wk[w].pc = "report"
      /\ \A w \in Workers : wk[w].pc \in {"report", "exited"}

\* C5: when read_dir failed for directory d during a run, sync returns with
\* d still processed=false, left for the next run.
C5_FailedDirLeftPending ==
    drv = "returned" =>
        \A d \in hist.failed : d \in DOMAIN cache /\ ~cache[d].processed

\* C6: when GetStats reports pending = 0 after the root entry is ensured,
\* Sync returns at once: no worker is started, the backend is not read and
\* the cache is as it was when Sync was called; a second sync right after a
\* completed one leaves the cache, and so its counts, unchanged.
C6_NothingPendingReturns ==
    /\ [][ (drv = "getStats" /\ GetStats(cache, Prefix).pending = 0) =>
              /\ drv' = "returned"
              /\ cache' = cache /\ cache = hist.before
              /\ hist'.walked = {}
              /\ wk' = wk /\ queue' = queue ]_vars
    /\ [] ((drv = "returned" /\ hist.runs = 2 /\ ~hist.errs) =>
              /\ cache = hist.before
              /\ hist.walked = {}
              /\ GetStats(cache, Prefix) = GetStats(hist.before, Prefix))

\* C6 witness: a second sync has returned early after a first one that had
\* walked the backend
C6_Witness ==
    /\ drv = "returned" /\ hist.runs = 2 /\ hist.early
    /\ pG \in DOMAIN cache /\ cache[pG].size = 5 /\ cache[pG].processed
    /\ cache = hist.before

------------------------------------------------------------------------------
(* Claims about listing and the prefix operations of the cache *)

Range(q) == {q[i] : i \in 1..Len(q)}

IsAscending(q) == \A i \in 1..(Len(q) - 1) : StrLess(q[i], q[i + 1])

IsDescending(q) == \A i \in 1..(Len(q) - 1) : StrLess(q[i + 1], q[i])

Min(a, b) == IF a <= b THEN a ELSE b

\* the entries of c that are strict descendants of prefix
Descendants(c, prefix) == {p \in DOMAIN c : HasPrefix(p, prefix) /\ p # prefix}

\* the file entries a listing of prefix after marker is about
FilesAfter(c, prefix, marker) ==
    {p \in Descendants(c, prefix) :
        ~c[p].is_dir /\ (marker # <<>> => StrLess(marker, p))}

\* q holds the first entries of E: everything of E left out is greater
IsFirstOf(q, E) ==
    /\ Range(q) \subseteq E
    /\ \A p \in E \ Range(q) : \A i \in 1..Len(q) : StrLess(q[i], p)

\* a call of List returned without error
Listed(dirOnly) ==
    /\ lastOp.op = "List" /\ lastOp.done /\ lastOp.ok
    /\ lastOp.args[3] = dirOnly

\* C13: List(prefix, marker, false, limit) returns, in ascending path order,
\* the first min(limit, n) of the n file entries that are strict descendants
\* of prefix and greater than the marker; truncated is true exactly when
\* n > limit; no directory is returned.
C13_ListFiles ==
    Listed(FALSE) =>
        LET E == FilesAfter(cache, lastOp.args[1], lastOp.args[2])
            r == lastOp.res
        IN  /\ IsAscending(r.entries)
            /\ IsFirstOf(r.entries, E)
            /\ Len(r.entries) = Min(lastOp.args[4], Cardinality(E))
            /\ r.truncated = (Cardinality(E) > lastOp.args[4])
            /\ \A p \in Range(r.entries) : ~cache[p].is_dir

\* C13 witness: a listing of b/ after the marker b/d/ is cut at one entry;
\* two files and no more lie after the marker, a file lies before it
C13_Witness ==
    /\ Listed(FALSE)
    /\ lastOp.args = <<pB, pD, FALSE, 1>>
    /\ lastOp.res.entries = <<pG>> /\ lastOp.res.truncated
    /\ {pF, pG, pD, pB} \subseteq DOMAIN cache /\ pT \notin DOMAIN cache

RECURSIVE Flatten(_)
Flatten(pages) == IF pages = <<>> THEN <<>> ELSE Head(pages) \o Flatten(Tail(pages))

\* C14: paging through List(P, marker, false, k) with the marker set to the
\* last entry of the page before, until truncated is false, yields every
\* file entry under P exactly once, in ascending order, in pages of at most
\* k entries; it ends after at most one call per file entry, plus one.
C14_PagesPartition ==
    lastOp.op = "ListPages" =>
        LET E == FilesAfter(cache, lastOp.args[1], <<>>)
        IN  /\ lastOp.ok
            /\ lastOp.calls <= Cardinality(E) + 1
            /\ \A i \in 1..Len(lastOp.res) : Len(lastOp.res[i]) <= lastOp.args[2]
            /\ lastOp.done => Flatten(lastOp.res) = SortPaths(E)

\* C14 witness: three files under b/ were returned in a page of two and a
\* page of one
C14_Witness ==
    /\ lastOp.op = "ListPages" /\ lastOp.done
    /\ lastOp.args[1] = pB /\ lastOp.args[2] = 2
    /\ lastOp.res = <<<<pG, pF>>, <<pT>>>>

\* p is an immediate child of prefix: nothing but a trailing '/' follows
\* its name
IsImmediateChild(p, prefix) ==
    /\ HasPrefix(p, prefix) /\ p # prefix
    /\ \A i \in (Len(prefix) + 1)..(Len(p) - 1) : p[i] # "/"

\* C15 as stated: List with dirOnly emits only immediate children of prefix
\* and every emitted entry is a directory; files are emitted only without
\* dirOnly.
C15_DirOnlyDirectories ==
    Listed(TRUE) =>
        \A p \in Range(lastOp.res.entries) :
            IsImmediateChild(p, lastOp.args[1]) /\ cache[p].is_dir

\* C15 amended: List with dirOnly emits only immediate children of prefix,
\* directories and files alike; without dirOnly every emitted entry is a
\* file.
C15_DirOnlyImmediateChildren ==
    /\ Listed(TRUE) =>
          \A p \in Range(lastOp.res.entries) : IsImmediateChild(p, lastOp.args[1])
    /\ Listed(FALSE) =>
          \A p \in Range(lastOp.res.entries) : ~cache[p].is_dir

\* C15 witness: a dirOnly listing of b/ returned a directory and a file and
\* left out the file below the directory
C15_Witness ==
    /\ Listed(TRUE)
    /\ lastOp.args[1] = pB /\ lastOp.args[2] = <<>>
    /\ lastOp.res.entries = <<pD, pF>>
    /\ pG \in DOMAIN cache

\* a call of op returned, made with a path that does not start with '/'
Called(op) ==
    /\ lastOp.op = op /\ lastOp.done
    /\ ~HasPrefix(lastOp.args[1], Slash)

\* the rows of c other than those of D are the rows of pre
OnlyRemoved(pre, c, D) ==
    /\ DOMAIN c = DOMAIN pre \ D
    /\ \A p \in DOMAIN c : c[p] = pre[p]

\* the entries of c whose path begins with path
BeginsWith(c, path) == {p \in DOMAIN c : HasPrefix(p, path)}

\* C16 as stated: Delete of a path ending in '/' deletes every entry whose
\* path begins with it, Delete of another path exactly that entry; all
\* other entries are unchanged.
C16_DeleteSubtree ==
    Called("Delete") =>
        LET path == lastOp.args[1]
        IN  OnlyRemoved(lastOp.pre, cache,
                        IF HasSuffix(path, Slash) THEN BeginsWith(lastOp.pre, path)
                        ELSE {path})

\* C16 amended: Delete removes at most one row and changes no other row:
\* with a path not ending in '/' it deletes exactly that entry; with a path
\* ending in '/' it fails and removes nothing when more than one entry
\* begins with the path, and when it succeeds and one entry begins with the
\* path, that entry is deleted.
C16_DeleteSingleRow ==
    Called("Delete") =>
        LET path == lastOp.args[1]
            pre == lastOp.pre
            gone == DOMAIN pre \ DOMAIN cache
        IN  /\ Cardinality(gone) <= 1
            /\ OnlyRemoved(pre, cache, gone)
            /\ ~HasSuffix(path, Slash) => lastOp.ok /\ gone = {path} \cap DOMAIN pre
            /\ HasSuffix(path, Slash) =>
                  /\ Cardinality(BeginsWith(pre, path)) > 1 => ~lastOp.ok /\ gone = {}
                  /\ (lastOp.ok /\ Cardinality(BeginsWith(pre, path)) = 1)
                        => gone = BeginsWith(pre, path)

\* C16 witness: Delete("b/d/") removed the directory entry, which had no
\* descendant, and left the other entries
C16_Witness ==
    /\ Called("Delete") /\ lastOp.ok
    /\ lastOp.args[1] = pD
    /\ pD \in DOMAIN lastOp.pre /\ pD \notin DOMAIN cache
    /\ {pB, pF} \subseteq DOMAIN cache

\* the rows the WHERE clause on path selects: LIKE path || '%' for a path
\* ending in '/', path = ? otherwise
Matched(c, path) ==
    IF HasSuffix(path, Slash) THEN {p \in DOMAIN c : Like(p, path \o <<"%">>)}
    ELSE {p \in DOMAIN c : p = path}

C18_DanglingDirs ==
    (Called("ListDanglingDirs") /\ lastOp.ok) =>
        LET P == lastOp.args[1]
            E == {d \in BeginsWith(cache, P) :
                    /\ cache[d].is_dir /\ cache[d].processed
                    /\ Descendants(cache, d) = {}}
            q == lastOp.res.dirs
        IN  /\ IsDescending(q)
            /\ Range(q) \subseteq E
            /\ Len(q) = Min(lastOp.args[2], Cardinality(E))

\* C19: DeleteDanglingFiles(P) deletes exactly the file entries under P
\* with processed=false and returns their number; directories and processed
\* files are left unchanged; on a prefix with no entries it returns 0.
C19_DeleteDanglingFiles ==
    (Called("DeleteDanglingFiles") /\ lastOp.ok) =>
        LET P == lastOp.args[1]
            pre == lastOp.pre
            D == {p \in BeginsWith(pre, P) : ~pre[p].is_dir /\ ~pre[p].processed}
        IN  /\ OnlyRemoved(pre, cache, D)
            /\ lastOp.res.n = Cardinality(D)
            /\ BeginsWith(pre, P) = {} => lastOp.res.n = 0

\* the rows whose processed flag differs between pre and c
Flipped(pre, c) == {p \in DOMAIN pre : c[p].processed # pre[p].processed}

\* C20: SetProcessed returns the number of rows whose flag changed; with
\* recursive and a path ending in '/', every row with that prefix whose
\* flag differed from the value is flipped; otherwise exactly the row with
\* that path, if it exists and differs; a call that matches nothing, or
\* repeats the call before, returns 0 and changes nothing.
C20_SetProcessedCount ==
    (Called("SetProcessed") /\ lastOp.ok) =>
        LET path == lastOp.args[1]
            recursive == lastOp.args[2]
            value == lastOp.args[3]
            pre == lastOp.pre
        IN  /\ DOMAIN cache = DOMAIN pre
            /\ \A p \in DOMAIN pre :
                  cache[p] = [pre[p] EXCEPT !.processed = cache[p].processed]
            /\ lastOp.res.n = Cardinality(Flipped(pre, cache))
            /\ IF recursive /\ HasSuffix(path, Slash)
               THEN \A p \in BeginsWith(pre, path) : cache[p].processed = value
               ELSE /\ Flipped(pre, cache) \subseteq {path}
                    /\ path \in DOMAIN pre => cache[path].processed = value
            /\ (IF recursive /\ HasSuffix(path, Slash)
                THEN Matched(pre, path) = {}
                ELSE path \notin DOMAIN pre)
                  => lastOp.res.n = 0 /\ cache = pre
            /\ lastOp.calls = 2 => lastOp.res.n = 0 /\ cache = pre

\* C20 witness: a recursive SetProcessed("b/", false) flipped the three
\* processed rows of five under b/, and the same call made again returned 0
C20_Witness ==
    /\ Called("SetProcessed") /\ lastOp.ok /\ lastOp.calls = 2
    /\ lastOp.args = <<pB, TRUE, FALSE>>
    /\ lastOp.res.n = 0
    /\ DOMAIN cache = {pB, pF, pD, pG, pT, pCf}
    /\ \A p \in {pB, pF, pD, pG, pT} : ~cache[p].processed
    /\ cache[pCf].processed

------------------------------------------------------------------------------
(* Claims about the invariants of the cache *)

\* the bucket roots: "b/"
IsBucketRoot(p) == HasSuffix(p, Slash) /\ DirOf(p) = <<>>

\* the ancestor directories of a path, down to the bucket root
AncestorDirs(p) ==
    {SubSeq(p, 1, k) : k \in {j \in 1..(Len(p) - 1) : p[j] = "/"}}

ProcessedDirs == {p \in DOMAIN cache : cache[p].is_dir /\ cache[p].processed}

\* C12 as stated: a directory entry with processed = true has had the result
\* of a completed ReadDir of it inserted before.
C12_ProcessedMeansEnumerated ==
    \A p \in ProcessedDirs : p \in hist.enumerated

\* C12: a directory entry with processed = true has had the result of a
\* completed ReadDir of it inserted before the flag became true, or a walk
\* found it missing on the backend, or an S3 PUT inserted it as an ancestor.
C12_ProcessedDirOrigin ==
    \A p \in ProcessedDirs :
        p \in hist.enumerated \cup hist.notFound \cup hist.putDirs

\* the three origins occur in one state: b/ was walked, b/d/ was missing on
\* the backend when it was walked
C12_Witness ==
    /\ pB \in ProcessedDirs /\ pD \in ProcessedDirs
    /\ pB \in hist.enumerated /\ pB \notin hist.putDirs
    /\ pD \in hist.notFound \cup hist.putDirs
    /\ pD \notin hist.enumerated

------------------------------------------------------------------------------
(* Claims about Insert repeated, Clean and the S3 requests *)

\* the columns of a row other than updated_at
Columns(row) ==
    <<row.size, row.is_dir, row.last_modified, row.processed>>

\* C21: insert is idempotent.  On any cache, a valid batch inserted a second
\* time leaves the same paths, and size, is_dir, last_modified and processed
\* of every entry as the first insert left them.
C21_InsertIdempotent ==
    (lastOp.op = "InsertTwice" /\ lastOp.done /\ lastOp.ok) =>
        /\ DOMAIN cache = DOMAIN lastOp.res[1]
        /\ \A p \in DOMAIN cache : Columns(cache[p]) = Columns(lastOp.res[1][p])

\* a batch with two entries for a row that was there, the second with the
\* older last_modified and processed=false, was inserted twice, the second
\* time later than the first
C21_Witness ==
    /\ lastOp.op = "InsertTwice" /\ lastOp.done /\ lastOp.ok
    /\ lastOp.args[1] = <<EntryInfo(pF, 5, 2, FALSE, TRUE),
                          EntryInfo(pF, 7, 1, FALSE, FALSE)>>
    /\ pF \in DOMAIN lastOp.pre
    /\ lastOp.res[1][pF].updated_at = 0
    /\ cache[pF] = Row(7, 2, FALSE, 1, TRUE)

\* C22: for each directory d that Clean obtains from ListDanglingDirs: when
\* ReadDir(d) reports NotFound the row of d is deleted; when it returns
\* entries the flag of d is set to false and the backend is left alone; when
\* it returns no entry the directory is removed on the backend and the row of
\* d is deleted; on another read error cache and backend are unchanged.
C22_CleanPerDirectory ==
    [][ LET d == Head(cl.dirs)
            backendSame == fsDirs' = fsDirs /\ fsFiles' = fsFiles
        IN  /\ cl.pc = "readdir" => cache' = cache /\ backendSame
            /\ cl.pc = "missing" => d \notin DOMAIN cache' /\ backendSame
            /\ cl.pc = "rescan" =>
                  /\ d \in DOMAIN cache' /\ ~cache'[d].processed
                  /\ backendSame
            /\ cl.pc = "remove" => d \notin fsDirs'
            /\ cl.pc = "delete" => d \notin DOMAIN cache' /\ backendSame
      ]_vars

\* a handler starts to serve a request
Arrives == hist'.reqs = hist.reqs + 1

\* C23: a request (HEAD or GET of a bucket, GET, HEAD, PUT or DELETE of an
\* object, bulk delete) whose bucket is not in the bucket map is answered 404
\* NoSuchBucket, and it changes no cache entry and reads, writes and removes
\* nothing on the backend.
C23_ForbiddenBucket ==
    [][ (Arrives /\ req'.bucket \notin bucketMap) =>
            /\ req'.pc = "idle"
            /\ req'.status = 404 /\ req'.body = "NoSuchBucket"
            /\ cache' = cache
            /\ fsDirs' = fsDirs /\ fsFiles' = fsFiles
            /\ req'.io = {}
      ]_vars

\* a DELETE of c/f was refused although the cache holds c/f and the backend
\* could be reached
C23_Witness ==
    /\ req.op = "DeleteObject" /\ req.bucket = <<"c">> /\ req.path = pCf
    /\ req.pc = "idle" /\ req.status = 404
    /\ pCf \in DOMAIN cache

\* a step of the handler of PUT
PutStep == req'.op = "PutObject" /\ (Arrives \/ req.pc \in {"stat", "insert"})

C24_WitnessStatFailed ==
    /\ req.op = "PutObject"
    /\ req.pc = "idle" /\ req.status = 500
    /\ req.io = {"write", "stat"}

\* a PUT arrives for a bucket of the bucket map with a header
\* X-Amz-Content-Sha256 that is not the digest of its body
PutBadDigest ==
    /\ Arrives
    /\ req'.op = "PutObject"
    /\ req'.bucket \in bucketMap
    /\ req'.sha # NoSha
    /\ req'.sha # HexSum(Body)

C25_WitnessAccepted ==
    /\ req.op = "PutObject" /\ req.sha = HexSum(Body)
    /\ req.pc = "idle" /\ req.status = 200

C26_WitnessFailed ==
    /\ req.op = "DeleteObject" /\ req.path = pF
    /\ req.pc = "idle" /\ req.status = 500
    /\ pF \in DOMAIN fsFiles
    /\ pF \notin DOMAIN cache

\* the number of times k is listed in the DeleteResult
Listings(r, k) ==
    Cardinality({i \in 1..Len(r.deleted) : r.deleted[i] = k})
        + Cardinality({i \in 1..Len(r.errors) : r.errors[i] = k})

\* C27: a bulk delete takes its keys one after the other, whatever became of
\* the keys before: a key whose object is gone from the backend afterwards
\* (it was removed, or it was not there) is listed under Deleted, a key whose
\* removal failed under Error. The answer is 200 with a DeleteResult that
\* lists every requested key exactly once, Deleted and Error together
\* holding as many items as keys were requested.
C27_BulkDeleteResult ==
    [][ (req.op = "BulkDelete" /\ req.pc = "bulkRemove") =>
          LET k == Head(req.keys)
              p == PathFromBucketAndKey(req.bucket, k)
          IN  /\ req'.keys = Tail(req.keys)
              /\ IF ~FsStat(fsDirs', fsFiles', p).ok
                 THEN /\ req'.deleted = Append(req.deleted, k)
                      /\ req'.errors = req.errors
                 ELSE /\ req'.errors = Append(req.errors, k)
                      /\ req'.deleted = req.deleted
              /\ req'.keys # <<>> => req'.pc = "bulkCache"
              /\ req'.keys = <<>> =>
                    /\ req'.pc = "idle"
                    /\ req'.status = 200 /\ req'.body = "DeleteResult"
                    /\ Len(req'.deleted) + Len(req'.errors) = Len(req.asked)
                    /\ \A i \in 1..Len(req.asked) : Listings(req', req.asked[i]) = 1
      ]_vars

\* a bulk delete of d and f was answered: d, a folder that is not empty, is
\* listed under Error and f, which was not on the backend, under Deleted
C27_Witness ==
    /\ req.op = "BulkDelete" /\ req.pc = "idle" /\ req.status = 200
    /\ req.asked = <<<<"d">>, <<"f">>>>
    /\ req.errors = <<<<"d">>>>
    /\ req.deleted = <<<<"f">>>>
    /\ hist.reqs = 1

\* the cache holds a file entry for the path
FileEntry(c, path) == path \in DOMAIN c /\ ~c[path].is_dir

\* C28: the cache decides what exists. GET and HEAD of /B/k are answered 200
\* or 304 only when the cache holds a file entry B/k; when it holds none the
\* answer is 404 and the backend is not consulted, whether the object is
\* there or not; a GET of a key the cache holds and the backend does not is
\* answered 404.
C28_CacheDecides ==
    [][ /\ (/\ Arrives /\ req'.op \in {"HeadObject", "GetObject"}
            /\ req'.bucket \in bucketMap
            /\ ~FileEntry(cache, req'.path)) =>
               /\ req'.pc = "idle" /\ req'.status = 404
               /\ req'.io = {}
               /\ fsDirs' = fsDirs /\ fsFiles' = fsFiles
        /\ (/\ req'.op \in {"HeadObject", "GetObject"}
            /\ req'.pc = "idle" /\ req'.status \in {200, 304}) =>
               FileEntry(cache', req'.path)
        /\ (/\ req.op = "GetObject" /\ req.pc = "read"
            /\ ~FsStat(fsDirs, fsFiles, req.path).ok) =>
               req'.pc = "idle" /\ req'.status = 404
      ]_vars

\* a GET of b/f, which is on the backend and not in the cache, was answered
\* 404 without a backend call
C28_Witness ==
    /\ req.op = "GetObject" /\ req.path = pF
    /\ req.pc = "idle" /\ req.status = 404 /\ req.io = {}
    /\ pF \in DOMAIN fsFiles
    /\ pF \notin DOMAIN cache

\* a GET of b/f, which is in the cache and not on the backend, was answered
\* 404 after the backend was read
C28_WitnessBackendMissing ==
    /\ req.op = "GetObject" /\ req.path = pF
    /\ req.pc = "idle" /\ req.status = 404 /\ req.io = {"read"}
    /\ pF \notin DOMAIN fsFiles
    /\ pF \in DOMAIN cache

\* a GET or HEAD arrives for the key of the PUT that was answered 200 just
\* before
GetAfterPut ==
    /\ req.op = "PutObject" /\ req.pc = "idle" /\ req.status = 200
    /\ Arrives
    /\ req'.op \in {"HeadObject", "GetObject"}
    /\ req'.path = req.path

BucketFileKeys(c) ==
    {KeyOf(Bucket, p) : p \in {x \in DOMAIN c : HasPrefix(x, Prefix) /\ ~c[x].is_dir}}

C30_WitnessV2 ==
    /\ lastOp.op = "ListAll" /\ ~lastOp.done
    /\ lastOp.args[1] /\ lastOp.args[2] = 2
    /\ req.truncated /\ req.body = "ListBucketResultV2"
    /\ req.next = pF

-----------------------------------------------------------------------------
(* Authentication: internal/s3_auth.go *)

\* Header values, query values and signatures are sequences of tokens; a
\* token is a piece of text that no parser of this file splits.

\* the text of a sequence of tokens
RECURSIVE Flat(_)
Flat(s) == IF s = <<>> THEN "" ELSE Head(s) \o Flat(Tail(s))

\* the number of bytes of a sequence of tokens
RECURSIVE Bytes(_)
Bytes(s) == IF s = <<>> THEN 0 ELSE Len(Head(s)) + Bytes(Tail(s))

\* HMAC with its base64 or hex encoding: one token without separators that
\* stands for the key and the text it was computed from
Hmac(key, data) == <<"hmac[" \o Flat(key) \o "|" \o Flat(data) \o "]">>

\* sha256 in hex
Sha256Hex(data) == <<"sha256[" \o Flat(data) \o "]">>

\* the index of the first token sep in s, 0 when there is none
RECURSIVE IndexOf(_, _)
IndexOf(s, sep) ==
    IF s = <<>> THEN 0
    ELSE IF Head(s) = sep THEN 1
    ELSE LET i == IndexOf(Tail(s), sep) IN IF i = 0 THEN 0 ELSE i + 1

\* strings.Split(s, sep)
RECURSIVE Split(_, _)
Split(s, sep) ==
    LET i == IndexOf(s, sep)
    IN  IF i = 0 THEN <<s>>
        ELSE <<SubSeq(s, 1, i - 1)>> \o Split(SubSeq(s, i + 1, Len(s)), sep)

\* strings.SplitN(s, sep, 2)
SplitN2(s, sep) ==
    LET i == IndexOf(s, sep)
    IN  IF i = 0 THEN <<s>>
        ELSE <<SubSeq(s, 1, i - 1), SubSeq(s, i + 1, Len(s))>>

\* r.Header.Get(name); names are kept in lower case
HeaderGet(r, name) == IF name \in DOMAIN r.header THEN r.header[name] ELSE <<>>

\* r.URL.Query().Get(key): the first value of the parameter
RECURSIVE QueryGet(_, _)
QueryGet(query, key) ==
    IF query = <<>> THEN <<>>
    ELSE IF Head(query).k = key THEN Head(query).v
    ELSE QueryGet(Tail(query), key)

\* r.URL.RawQuery: the parameters as the client sent them
RECURSIVE RawQuery(_)
RawQuery(query) ==
    IF query = <<>> THEN <<>>
    ELSE <<Head(query).k, "=">> \o Head(query).v
         \o (IF Len(query) > 1 THEN <<"&">> ELSE <<>>) \o RawQuery(Tail(query))

\* url.QueryUnescape: '+' becomes a space (no token of the model holds '%')
QueryUnescape(s) == [i \in DOMAIN s |-> IF s[i] = "+" THEN " " ELSE s[i]]

\* strconv.ParseInt(s, 10, 64)
ParseInt(s) ==
    LET nums == {n \in 0..(MaxNow + 1) : Digits(n) = s}
    IN  IF nums = {} THEN [ok |-> FALSE, n |-> 0]
        ELSE [ok |-> TRUE, n |-> CHOOSE n \in nums : TRUE]

\* the first second of the model's clock, in the layout 20060102T150405Z
Day == "20250101"

\* a time in the layout 20060102T150405Z
AmzDate(t) == <<Day, "T00000">> \o Digits(t) \o <<"Z">>

\* time.Parse("20060102T150405Z", date)
ParseTime(date) ==
    LET ts == {t \in 0..9 : AmzDate(t) = date}
    IN  IF ts = {} THEN [ok |-> FALSE, t |-> 0]
        ELSE [ok |-> TRUE, t |-> CHOOSE t \in ts : TRUE]

\* date[:8]; the slice panics when the string is shorter
RECURSIVE Slice8(_, _)
Slice8(date, n) ==
    IF n = 0 THEN [panic |-> FALSE, v |-> <<>>]
    ELSE IF date = <<>> \/ Len(Head(date)) > n THEN [panic |-> Bytes(date) < n, v |-> <<>>]
    ELSE LET rest == Slice8(Tail(date), n - Len(Head(date)))
         IN  [panic |-> rest.panic, v |-> <<Head(date)>> \o rest.v]

\* calculateSignature: the v2 signature of the request
calculateSignature(r, date, secretKey) ==
    LET path == IF r.path = <<>> THEN <<"/">> ELSE r.path
        canonicalizedResource ==
            IF r.query # <<>> THEN path \o <<"?">> \o RawQuery(r.query) ELSE path
        stringToSign ==
            <<r.method, "\n">> \o HeaderGet(r, "content-md5") \o <<"\n">>
            \o HeaderGet(r, "content-type") \o <<"\n">> \o date \o <<"\n">>
            \o canonicalizedResource
    IN  Hmac(secretKey, stringToSign)

\* validateAuthorizationV2
validateAuthorizationV2(r, config) ==
    LET authHeader == HeaderGet(r, "authorization")
        parts == SplitN2(Tail(authHeader), ":")
    IN  /\ authHeader # <<>>
        /\ Head(authHeader) = "AWS "
        /\ Len(parts) = 2
        /\ parts[1] = config.AccessKey
        /\ calculateSignature(r, HeaderGet(r, "date"), config.SecretKey) = parts[2]

\* validatePresignedURLV2 at time t
validatePresignedURLV2(r, config, t) ==
    LET accessKey == QueryGet(r.query, "AWSAccessKeyId")
        signature == QueryGet(r.query, "Signature")
        expires == QueryGet(r.query, "Expires")
        expiresTime == ParseInt(expires)
    IN  /\ accessKey # <<>> /\ signature # <<>> /\ expires # <<>>
        /\ accessKey = config.AccessKey
        /\ expiresTime.ok
        /\ ~(t > expiresTime.n)
        /\ calculateSignature(r, expires, config.SecretKey) = QueryUnescape(signature)

\* awsURIEscape of one path segment: a space is the only reserved byte that
\* the segments of the model hold
awsURIEscape(segment) == IF segment = "a b" THEN "a%20b" ELSE segment

\* strings.Join(segments, "/")
RECURSIVE JoinSegments(_)
JoinSegments(segments) ==
    IF segments = <<>> THEN <<>>
    ELSE IF Len(segments) = 1 THEN Head(segments)
    ELSE Head(segments) \o <<"/">> \o JoinSegments(Tail(segments))

\* canonicalizeURI
canonicalizeURI(path) ==
    IF path = <<>> \/ path = <<"/">> THEN <<"/">>
    ELSE LET segments == Split(path, "/")
             encoded == [i \in DOMAIN segments |->
                            [j \in DOMAIN segments[i] |-> awsURIEscape(segments[i][j])]]
             joined == JoinSegments(encoded)
             rooted == IF Head(joined) = "/" THEN joined ELSE <<"/">> \o joined
         IN  CollapseSlashes(rooted)

\* the parameter names of the model in the order of sort.Strings
QueryKeyOrder ==
    <<"AWSAccessKeyId", "Expires", "Signature", "X-Amz-Credential", "X-Amz-Date",
      "X-Amz-Expires", "X-Amz-Signature", "X-Amz-SignedHeaders", "versioning">>

\* the parameters sorted by name, as url.Values.Encode and sort.Strings
\* order them (a name occurs once in the requests of the model)
RECURSIVE SortQuery(_, _)
SortQuery(query, keys) ==
    IF keys = <<>> THEN <<>>
    ELSE SelectSeq(query, LAMBDA p : p.k = Head(keys)) \o SortQuery(query, Tail(keys))

\* createCanonicalQueryString
createCanonicalQueryString(query) == RawQuery(SortQuery(query, QueryKeyOrder))

\* strings.ToLower of a header name
ToLower(name) == IF name = "Host" THEN "host" ELSE name

\* strings.TrimSpace
RECURSIVE TrimSpace(_)
TrimSpace(s) ==
    IF s = <<>> THEN s
    ELSE IF Head(s) = " " THEN TrimSpace(Tail(s))
    ELSE IF s[Len(s)] = " " THEN TrimSpace(SubSeq(s, 1, Len(s) - 1))
    ELSE s

\* createCanonicalHeaders
RECURSIVE createCanonicalHeaders(_, _)
createCanonicalHeaders(r, headerNames) ==
    IF headerNames = <<>> THEN <<>>
    ELSE LET trimmed == TrimSpace(Head(headerNames))
             headerName == [i \in DOMAIN trimmed |-> ToLower(trimmed[i])]
             got == IF Len(headerName) = 1 THEN HeaderGet(r, headerName[1]) ELSE <<>>
             headerValue == IF got = <<>> /\ headerName = <<"host">> THEN r.host ELSE got
         IN  headerName \o <<":">> \o TrimSpace(headerValue) \o <<"\n">>
             \o createCanonicalHeaders(r, Tail(headerNames))

\* createCanonicalRequest
createCanonicalRequest(r, signedHeaders) ==
    LET canonicalURI == IF r.path = <<>> THEN <<"/">> ELSE canonicalizeURI(r.path)
        sha == HeaderGet(r, "x-amz-content-sha256")
        payloadHash == IF sha = <<>> THEN <<"UNSIGNED-PAYLOAD">> ELSE sha
    IN  <<r.method, "\n">> \o canonicalURI \o <<"\n">>
        \o createCanonicalQueryString(r.query) \o <<"\n">>
        \o createCanonicalHeaders(r, Split(signedHeaders, ";")) \o <<"\n">>
        \o signedHeaders \o <<"\n">> \o payloadHash

\* calculateSignatureV4: the signature, or the panic of date[:8]
calculateSignatureV4(r, region, service, secretKey, date, signedHeaders) ==
    LET canonicalRequest == createCanonicalRequest(r, signedHeaders)
        day == Slice8(date, 8)
        credentialScope ==
            day.v \o <<"/">> \o region \o <<"/">> \o service \o <<"/", "aws4_request">>
        stringToSign ==
            <<"AWS4-HMAC-SHA256", "\n">> \o date \o <<"\n">> \o credentialScope
            \o <<"\n">> \o Sha256Hex(canonicalRequest)
        kDate == Hmac(<<"AWS4">> \o secretKey, day.v)
        kRegion == Hmac(kDate, region)
        kService == Hmac(kRegion, service)
        kSigning == Hmac(kService, <<"aws4_request">>)
    IN  IF day.panic THEN [panic |-> TRUE, signature |-> <<>>]
        ELSE [panic |-> FALSE, signature |-> Hmac(kSigning, stringToSign)]

\* authData[name] of validateAuthorizationV4: the value of the last part
\* "name=value" of the header
RECURSIVE AuthData(_, _)
AuthData(authParts, name) ==
    IF authParts = <<>> THEN <<>>
    ELSE LET kv == SplitN2(TrimSpace(authParts[Len(authParts)]), "=")
         IN  IF Len(kv) = 2 /\ kv[1] = <<name>> THEN kv[2]
             ELSE AuthData(SubSeq(authParts, 1, Len(authParts) - 1), name)

\* validateAuthorizationV4: accepted or not, or the panic of calculateSignatureV4
validateAuthorizationV4(r, config) ==
    LET authHeader == HeaderGet(r, "authorization")
        authParts == Split(Tail(authHeader), ",")
        credential == AuthData(authParts, "Credential")
        signature == AuthData(authParts, "Signature")
        signedHeaders == AuthData(authParts, "SignedHeaders")
        credentialParts == Split(credential, "/")
        amzDate == HeaderGet(r, "x-amz-date")
        expected == calculateSignatureV4(r, credentialParts[3], credentialParts[4],
                                         config.SecretKey, amzDate, signedHeaders)
        no == [ok |-> FALSE, panic |-> FALSE]
    IN  IF authHeader = <<>> \/ Head(authHeader) # "AWS4-HMAC-SHA256 " THEN no
        ELSE IF credential = <<>> \/ signature = <<>> \/ signedHeaders = <<>> THEN no
        ELSE IF Len(credentialParts) < 5 THEN no
        ELSE IF credentialParts[1] # config.AccessKey THEN no
        ELSE IF amzDate = <<>> THEN no
        ELSE IF expected.panic THEN [ok |-> FALSE, panic |-> TRUE]
        ELSE [ok |-> expected.signature = signature, panic |-> FALSE]

\* validatePresignedURLV4 at time t
validatePresignedURLV4(r, config, t) ==
    LET credential == QueryGet(r.query, "X-Amz-Credential")
        signature == QueryGet(r.query, "X-Amz-Signature")
        signedHeaders == QueryGet(r.query, "X-Amz-SignedHeaders")
        expires == QueryGet(r.query, "X-Amz-Expires")
        date == QueryGet(r.query, "X-Amz-Date")
        credentialParts == Split(credential, "/")
        expiresSeconds == ParseInt(expires)
        requestTime == ParseTime(date)
        modifiedQuery ==
            SortQuery(SelectSeq(r.query, LAMBDA p : p.k # "X-Amz-Signature"),
                      QueryKeyOrder)
        modifiedRequest == [r EXCEPT !.query = modifiedQuery]
        expected == calculateSignatureV4(modifiedRequest, credentialParts[3],
                                         credentialParts[4], config.SecretKey, date,
                                         signedHeaders)
    IN  /\ credential # <<>> /\ signature # <<>> /\ signedHeaders # <<>>
        /\ expires # <<>> /\ date # <<>>
        /\ Len(credentialParts) >= 5
        /\ credentialParts[1] = config.AccessKey
        /\ expiresSeconds.ok
        /\ requestTime.ok
        /\ ~(t > requestTime.t + expiresSeconds.n)
        /\ expected.signature = signature

\* what the middleware did with a request: whether next.ServeHTTP ran, the
\* status and WWW-Authenticate header it wrote itself (0 and "" when it wrote
\* nothing), the log context, and whether the goroutine panicked
AuthOutcome(invoked, status, challenge, context, panic) ==
    [invoked |-> invoked, status |-> status, challenge |-> challenge,
     context |-> context, panic |-> panic]

\* S3AuthMiddleware: the handler it returns, serving request r at time t
S3AuthMiddleware(config, r, t) ==
    IF config.AccessKey = <<>> THEN AuthOutcome(TRUE, 0, "", "", FALSE)
    ELSE IF validatePresignedURLV2(r, config, t)
         THEN AuthOutcome(TRUE, 0, "", "presigned-v2", FALSE)
    ELSE IF validatePresignedURLV4(r, config, t)
         THEN AuthOutcome(TRUE, 0, "", "presigned-v4", FALSE)
    ELSE IF validateAuthorizationV2(r, config)
         THEN AuthOutcome(TRUE, 0, "", "auth-v2", FALSE)
    ELSE IF validateAuthorizationV4(r, config).panic
         THEN AuthOutcome(FALSE, 0, "", "", TRUE)
    ELSE IF validateAuthorizationV4(r, config).ok
         THEN AuthOutcome(TRUE, 0, "", "auth-v4", FALSE)
    ELSE AuthOutcome(FALSE, 401, "AWS", "auth-fail", FALSE)

\* the configured credentials
AccessKey == <<"AK">>
SecretKey == <<"SK">>

\* the configurations: without an access key, and with one
AuthConfigs ==
    {[AccessKey |-> <<>>, SecretKey |-> <<>>],
     [AccessKey |-> AccessKey, SecretKey |-> SecretKey]}

\* an unsigned request
HttpRequest(method, path, query) ==
    [method |-> method, path |-> path, query |-> query,
     header |-> ("user-agent" :> <<"curl">>), host |-> <<"example">>]

\* requests before they are signed
PlainRequests ==
    {HttpRequest(method, path, query) :
        method \in {"GET", "PUT"},
        path \in {<<"/", "b", "/", "f">>, <<"/", "b", "/", "a b">>},
        query \in {<<>>, <<[k |-> "versioning", v |-> <<>>]>>}}

\* the keys and secrets clients sign with
ClientKeys == {AccessKey, <<"XX">>}
ClientSecrets == {SecretKey, <<"bad">>}

\* the Expires values clients send
ClientExpires == {Digits(t) : t \in 0..MaxNow} \cup {<<"x">>}

\* the X-Amz-Date values clients send: two times and a date of one byte
ClientDates == {AmzDate(0), AmzDate(1), <<"1">>}

\* a client signs (method, Content-MD5, Content-Type, date, resource) with a secret
ClientSignV2(r, date, resource, secret) ==
    Hmac(secret,
         <<r.method, "\n">> \o HeaderGet(r, "content-md5") \o <<"\n">>
         \o HeaderGet(r, "content-type") \o <<"\n">> \o date \o <<"\n">> \o resource)

\* a v2 presigned URL for r
PresignV2(r, key, secret, expires) ==
    [r EXCEPT !.query =
        @ \o <<[k |-> "AWSAccessKeyId", v |-> key], [k |-> "Expires", v |-> expires],
               [k |-> "Signature", v |-> ClientSignV2(r, expires, r.path, secret)]>>]

\* r with a v2 Authorization header
SignV2(r, key, secret, date) ==
    LET dated == [r EXCEPT !.header = @ @@ ("date" :> date)]
    IN  [dated EXCEPT !.header =
            @ @@ ("authorization" :>
                    <<"AWS ">> \o key \o <<":">> \o calculateSignature(dated, date, secret))]

\* the credential of a v4 request
Credential(key) == key \o <<"/", Day, "/", "us-east-1", "/", "s3", "/", "aws4_request">>

\* r with a v4 Authorization header
SignV4(r, key, secret, date) ==
    LET dated == [r EXCEPT !.header = @ @@ ("x-amz-date" :> date)]
        signed == calculateSignatureV4(dated, <<"us-east-1">>, <<"s3">>, secret, date,
                                       <<"host">>)
        signature == IF signed.panic THEN <<"00">> ELSE signed.signature
    IN  [dated EXCEPT !.header =
            @ @@ ("authorization" :>
                    <<"AWS4-HMAC-SHA256 ", "Credential", "=">> \o Credential(key)
                    \o <<",", " ", "SignedHeaders", "=", "host", ",", " ",
                         "Signature", "=">> \o signature)]

\* a v4 presigned URL for r
PresignV4(r, key, secret, date, expires) ==
    LET unsigned ==
            [r EXCEPT !.query =
                SortQuery(@ \o <<[k |-> "X-Amz-Credential", v |-> Credential(key)],
                                 [k |-> "X-Amz-Date", v |-> date],
                                 [k |-> "X-Amz-Expires", v |-> expires],
                                 [k |-> "X-Amz-SignedHeaders", v |-> <<"host">>]>>,
                          QueryKeyOrder)]
        signed == calculateSignatureV4(unsigned, <<"us-east-1">>, <<"s3">>, secret, date,
                                       <<"host">>)
        signature == IF signed.panic THEN <<"00">> ELSE signed.signature
    IN  [unsigned EXCEPT !.query = @ \o <<[k |-> "X-Amz-Signature", v |-> signature]>>]

\* the requests clients send: unsigned ones and the four kinds of signed ones
SignedRequests ==
    PlainRequests
    \cup {PresignV2(r, key, secret, expires) :
            r \in {p \in PlainRequests : p.query = <<>>}, key \in ClientKeys,
            secret \in ClientSecrets, expires \in ClientExpires}
    \cup {SignV2(r, key, secret, <<"Tue">>) :
            r \in PlainRequests, key \in ClientKeys, secret \in ClientSecrets}
    \cup {SignV4(r, key, secret, date) :
            r \in PlainRequests, key \in ClientKeys, secret \in ClientSecrets,
            date \in ClientDates}
    \cup {PresignV4(r, key, secret, date, expires) :
            r \in {p \in PlainRequests : p.method = "GET"}, key \in ClientKeys,
            secret \in ClientSecrets, date \in ClientDates, expires \in ClientExpires}

\* a signed request replayed with the other method
Replayed(r) == [r EXCEPT !.method = IF @ = "GET" THEN "PUT" ELSE "GET"]

\* the requests that arrive
AuthRequests == SignedRequests \cup {Replayed(r) : r \in SignedRequests}

\* the middleware serves the request
Authenticate ==
    /\ lastOp.op = "Auth"
    /\ ~lastOp.done
    /\ LET out == S3AuthMiddleware(lastOp.args[1], lastOp.args[2], now)
       IN  lastOp' = [lastOp EXCEPT !.done = TRUE, !.ok = out.invoked, !.res = out]
    /\ UNCHANGED <<cl, req, cache, now, fsDirs, fsFiles, fsFail, drv, queue, pending, wk, hist>>

\* a request arrives at a gateway with some configuration, at some time
InitAuth ==
    /\ cache = EmptyCache
    /\ now \in 0..MaxNow
    /\ lastOp \in {Call("Auth", <<config, r>>) : config \in AuthConfigs, r \in AuthRequests}
    /\ fsDirs = {}
    /\ fsFiles = EmptyCache
    /\ SyncIdle

SpecAuth == InitAuth /\ [][Authenticate]_vars

-----------------------------------------------------------------------------
(* Claims about authentication *)

\* the middleware has served the request
AuthDone == lastOp.op = "Auth" /\ lastOp.done

\* the log context of the first validator that accepts the request, in the
\* order presigned v2, presigned v4, Authorization v2, Authorization v4;
\* "" when none accepts
FirstAccepting(config, r, t) ==
    IF validatePresignedURLV2(r, config, t) THEN "presigned-v2"
    ELSE IF validatePresignedURLV4(r, config, t) THEN "presigned-v4"
    ELSE IF validateAuthorizationV2(r, config) THEN "auth-v2"
    ELSE IF validateAuthorizationV4(r, config).ok THEN "auth-v4"
    ELSE ""

\* C31: with an access key configured the handler is invoked only if one of
\* the four validators, tried in the order presigned v2, presigned v4,
\* Authorization v2, Authorization v4, accepts the request; otherwise the
\* response is 401 with WWW-Authenticate: AWS and the handler is not invoked;
\* without an access key every request reaches the handler.
C31_AuthGate ==
    AuthDone =>
        LET config == lastOp.args[1]
            out == lastOp.res
            first == FirstAccepting(config, lastOp.args[2], now)
        IN  IF config.AccessKey = <<>> THEN out.invoked
            ELSE IF first # "" THEN out.invoked /\ out.context = first
            ELSE ~out.invoked /\ out.status = 401 /\ out.challenge = "AWS"

\* the handler runs only for requests that a validator accepted
AuthNeverBypassed ==
    (AuthDone /\ lastOp.args[1].AccessKey # <<>> /\ lastOp.res.invoked)
        => FirstAccepting(lastOp.args[1], lastOp.args[2], now) # ""

\* a request was refused without any response
AuthPanicked == AuthDone /\ lastOp.res.panic

\* requests accepted by each validator, and a refusal with 401
AuthAcceptedPresignedV2 == AuthDone /\ lastOp.res.context = "presigned-v2"
AuthAcceptedPresignedV4 == AuthDone /\ lastOp.res.context = "presigned-v4"
AuthAcceptedV2 == AuthDone /\ lastOp.res.context = "auth-v2"
AuthAcceptedV4 == AuthDone /\ lastOp.res.context = "auth-v4"
AuthRefused == AuthDone /\ lastOp.res.status = 401

\* C40: a v2 presigned URL whose Signature was computed by signing (method,
\* Content-MD5, Content-Type, Expires, resource) with the configured secret,
\* for the configured access key and an Expires that is not in the past, is
\* accepted.
C40_PresignedV2Accepted ==
    (/\ AuthDone
     /\ lastOp.args[1].AccessKey = AccessKey
     /\ \E p \in PlainRequests, e \in 0..MaxNow :
            /\ p.query = <<>>
            /\ ~(now > e)
            /\ lastOp.args[2] = PresignV2(p, AccessKey, SecretKey, Digits(e)))
        => lastOp.res.invoked

-----------------------------------------------------------------------------
(* Claims about runs of Sync and Clean *)

NextSyncClean ==
    \/ Quiet /\ SyncStart
    \/ Quiet /\ CleanStart
    \/ DrvStatRoot
    \/ DrvInsertRoot
    \/ DrvGetStats
    \/ DrvList
    \/ \E w \in Workers : DrvSend(w)
    \/ \E w \in Workers : DrvRecv(w)
    \/ DrvClose
    \/ DrvWait
    \/ DrvSweep
    \/ \E w \in Workers : WkExit(w)
    \/ \E w \in Workers : WkStat(w)
    \/ \E w \in Workers : WkReadDir(w)
    \/ \E w \in Workers : WkNotFound(w)
    \/ \E w \in Workers : WkInsert(w)
    \/ \E w \in Workers : WkSetProcessed(w)
    \/ ClList
    \/ ClReadDir
    \/ ClMissing
    \/ ClRescan
    \/ ClRemove
    \/ ClDelete

\* runs of Sync and Clean, one after the other in any order, on any cache and
\* any backend; SetProcessed(bucket+"/", true, false) is not called
SpecSyncClean == InitSync /\ [][NextSyncClean]_vars

\* the entries of files below directory d
FilesBelow(c, d) == {p \in DOMAIN c : p # d /\ HasPrefix(p, d) /\ ~c[p].is_dir}

\* the walk of a directory that read_dir reports NotFound: the row stays and
\* is processed, no other row changes, the walk returns nil
NotFoundWalk ==
    \A w \in Workers :
        (wk[w].pc = "notfound" /\ wk'[w].pc = "report") =>
            /\ ~wk'[w].err
            /\ DOMAIN cache' = DOMAIN cache
            /\ wk[w].dir \in DOMAIN cache => cache'[wk[w].dir].processed
            /\ \A p \in DOMAIN cache : p # wk[w].dir => cache'[p] = cache[p]

\* C32: when read_dir(d) reports NotFound during sync the walk keeps d's row,
\* marks it processed, changes no other row and returns success; afterwards
\* no run of sync or clean removes d's row or the entries of files below d.
C32_NotFoundStays ==
    [][ /\ NotFoundWalk
        /\ \A d \in hist.notFound \cap DOMAIN cache :
              /\ d \in DOMAIN cache'
              /\ FilesBelow(cache, d) \subseteq DOMAIN cache' ]_vars

\* C32 as the code has it: afterwards no run of sync or clean removes an
\* entry of a file below d that is processed, or d's row while an entry
\* below d is in the cache.
C32_NotFoundStaysWithChildren ==
    [][ /\ NotFoundWalk
        /\ \A d \in hist.notFound \cap DOMAIN cache :
              /\ (\E p \in DOMAIN cache : p # d /\ HasPrefix(p, d)) => d \in DOMAIN cache'
              /\ {p \in FilesBelow(cache, d) : cache[p].processed} \subseteq DOMAIN cache' ]_vars

\* two runs of sync have returned after the walk of d/ found it missing, and
\* the entries of d/ and of the file below it are still there
C32_Witness ==
    /\ pD \in hist.notFound
    /\ hist.runs = 2
    /\ drv = "returned"
    /\ pD \in DOMAIN cache
    /\ pG \in DOMAIN cache

\* clean found d/ missing as well and calls Delete for its row
C32_WitnessClean ==
    /\ pD \in hist.notFound
    /\ cl.pc = "missing"
    /\ Head(cl.dirs) = pD
    /\ pD \in DOMAIN cache
    /\ pG \in DOMAIN cache

\* the entries walkDir builds from what read_dir(d) returns
ChildrenOf(d) == BatchInfos(d, ReadDir(fsDirs, fsFiles, fsFail, d).infos)

\* every child read_dir(d) returned is in cache c: files processed,
\* directories pending unless they were processed when the run began or a
\* walk of this run has handled them
ChildrenCommitted(c, d) ==
    \A i \in 1..Len(ChildrenOf(d)) :
        LET p == ChildrenOf(d)[i].Path
        IN  /\ p \in DOMAIN c
            /\ ~c[p].is_dir => c[p].processed
            /\ (c[p].is_dir /\ c[p].processed) =>
                  \/ (p \in DOMAIN hist.before /\ hist.before[p].processed)
                  \/ p \in hist.enumerated \cup hist.notFound

\* worker w, walking a directory that read_dir found, turns its processed flag on
MarksProcessed(w) ==
    /\ wk[w].pc \in {"readdir", "insert", "setproc"}
    /\ wk'[w].pc \in {"insert", "setproc", "report"}
    /\ wk[w].dir \in DOMAIN cache
    /\ ~cache[wk[w].dir].processed
    /\ wk[w].dir \in DOMAIN cache'
    /\ cache'[wk[w].dir].processed

\* C33: a sync worker never marks a directory processed before the batch of
\* its children is committed: when a successful walk sets processed=true on
\* d, every child read_dir(d) returned is already in the cache, the files
\* processed, the sub-directories pending unless they were processed before.
C33_ChildrenBeforeProcessed ==
    [][ \A w \in Workers : MarksProcessed(w) => ChildrenCommitted(cache, wk[w].dir) ]_vars

\* a walk of b/, which has a file and a directory below it, has marked it
\* processed; the directory below it is still pending
C33_Witness ==
    /\ \E w \in Workers : wk[w].pc = "report" /\ wk[w].dir = pB /\ ~wk[w].err
    /\ pB \in hist.enumerated
    /\ pB \in DOMAIN hist.before => ~hist.before[pB].processed
    /\ cache[pB].processed
    /\ ChildrenCommitted(cache, pB)
    /\ Len(ChildrenOf(pB)) = 2
    /\ pD \notin DOMAIN hist.before
    /\ ~cache[pD].processed

\* the workers that hold a directory the driver sent them and have not yet
\* handed its result to the driver
InFlight ==
    {w \in Workers :
        wk[w].pc \in {"stat", "readdir", "notfound", "insert", "setproc", "report"}}

\* the driver leaves its loop without an error of ListPendingDirs
LeavesLoop == drv = "list" /\ drv' = "close" /\ hist'.faults = hist.faults

\* C34: the driver's counter of walks in flight equals the number of
\* directories sent to workers whose result has not been received, it is
\* never negative and never above the pool size 2, and the driver leaves its
\* loop normally only when ListPendingDirs returned no directory and the
\* counter is 0.
C34_InFlightAccounting ==
    /\ [](/\ pending = Cardinality(InFlight)
          /\ pending >= 0
          /\ pending <= 2)
    /\ [][LeavesLoop => (queue' = <<>> /\ pending = 0)]_vars

\* both workers of the pool hold a directory
C34_Witness == pending = 2 /\ Cardinality(InFlight) = 2 /\ drv = "recv"

\* the driver has left its loop normally after walks were received
C34_WitnessLeft ==
    /\ drv = "close"
    /\ hist.faults = 0
    /\ hist.walked # {}
    /\ pending = 0

\* C35: clean(B) always terminates: whatever the backend answers to read_dir
\* and remove and whatever cache.delete returns, a directory returned by
\* list_dangling_dirs is not returned again after it has been handled, so
\* the loop reaches an empty list.
C35_HandledNotListedAgain ==
    [][ (cl.pc = "list" /\ cl'.pc = "readdir") =>
            \A i \in 1..Len(cl'.dirs) : cl'.dirs[i] \notin cl.handled ]_vars

\* clean lists again a directory without entries below it that the backend
\* could not read
C35_ListedAgain ==
    /\ cl.pc = "readdir"
    /\ Head(cl.dirs) \in cl.handled
    /\ Head(cl.dirs) \in fsFail
    /\ ~\E p \in DOMAIN cache : p # Head(cl.dirs) /\ HasPrefix(p, Head(cl.dirs))

\* the directories of cache c that have an entry below them
WithDescendants(c) ==
    {d \in DOMAIN c : c[d].is_dir /\ \E p \in DOMAIN c : p # d /\ HasPrefix(p, d)}

\* C36: clean(B) only touches dangling directories: for a directory that has
\* an entry below it in the cache it never removes the directory on the
\* backend, never deletes its row and never flips its processed flag, and it
\* never touches the rows of files.
C36_CleanOnlyDangling ==
    [][ /\ \A d \in WithDescendants(cache) :
              /\ d \in DOMAIN cache'
              /\ cache'[d].processed = cache[d].processed
              /\ d \in fsDirs => d \in fsDirs'
        /\ \A p \in DOMAIN cache :
              ~cache[p].is_dir => (p \in DOMAIN cache' /\ cache'[p] = cache[p]) ]_vars

\* what holds of Clean for these directories and for files: no row of them
\* is deleted
CleanKeepsRows ==
    [][ \A p \in DOMAIN cache :
            (p \in WithDescendants(cache) \/ ~cache[p].is_dir) => p \in DOMAIN cache' ]_vars

-----------------------------------------------------------------------------
(* Claims about S3 requests during Sync *)

\* the caches after SetProcessed(bucket+"/", true, false): every entry is
\* pending and has its directories above it
PendingCaches == {c \in CleanCaches : \A p \in DOMAIN c : ~c[p].processed}

InitConcurrent ==
    /\ cache \in PendingCaches
    /\ now = 1
    /\ lastOp = NoOp
    /\ \E b \in InitBackends : fsDirs = b.dirs /\ fsFiles = b.files
    /\ SyncIdle

\* the keys of the requests that arrive while Sync runs
ConcurrentKeys == {<<"f">>, <<"d", "/", "g">>}

\* Sync has been called and has not returned
SyncRunning == drv \notin {"idle", "returned"}

NextConcurrent ==
    \/ hist.runs = 0 /\ SyncStart
    \/ DrvStatRoot
    \/ DrvInsertRoot
    \/ DrvGetStats
    \/ DrvList
    \/ \E w \in Workers : DrvSend(w)
    \/ \E w \in Workers : DrvRecv(w)
    \/ DrvClose
    \/ DrvWait
    \/ DrvSweep
    \/ \E w \in Workers : WkExit(w)
    \/ \E w \in Workers : WkStat(w)
    \/ \E w \in Workers : WkReadDir(w)
    \/ \E w \in Workers : WkNotFound(w)
    \/ \E w \in Workers : WkInsert(w)
    \/ \E w \in Workers : WkSetProcessed(w)
    \/ SyncRunning /\ \E key \in ConcurrentKeys : PutWrite(Bucket, key, Body, NoSha)
    \/ PutStat
    \/ PutInsert
    \/ SyncRunning /\ \E key \in ConcurrentKeys : DelCache(Bucket, key)
    \/ DelRemove

\* one Sync on a cache that was reset, with PUT and DELETE requests that
\* arrive at any moment of it
SpecConcurrent == InitConcurrent /\ [][NextConcurrent]_vars

\* the entries of files under the bucket, and the files of the backend
FileEntries == {p \in DOMAIN cache : HasPrefix(p, Prefix) /\ ~cache[p].is_dir}
BackendFiles == {p \in DOMAIN fsFiles : HasPrefix(p, Prefix)}

\* the first Sync has returned and no request is being served
SyncReturned == drv = "returned" /\ hist.runs = 1 /\ req.pc = "idle"

\* C37: for every interleaving of a sync(B) with PUT and DELETE requests
\* that all complete, when sync returns every directory that was pending has
\* been walked, the sweep has removed no entry of a file that is on the
\* backend, and the file entries under B are the files of the backend.
C37_SyncWithRequests ==
    SyncReturned =>
        /\ \A p \in DOMAIN hist.start :
              (hist.start[p].is_dir /\ ~hist.start[p].processed /\ HasPrefix(p, Prefix))
                  => p \in hist.walked
        /\ FileEntries = BackendFiles

\* the part of C37 about the directories: those pending when Sync was called
\* have been walked when it returns
PendingWalked ==
    SyncReturned =>
        \A p \in DOMAIN hist.start :
            (hist.start[p].is_dir /\ ~hist.start[p].processed /\ HasPrefix(p, Prefix))
                  => p \in hist.walked

\* the same of a Sync during which no request was served
SyncAlone == (SyncReturned /\ hist.reqs = 0) => FileEntries = BackendFiles

\* a DELETE was served while Sync ran and Sync has returned
C37_DeleteDuringSync ==
    /\ SyncReturned
    /\ req.op = "DeleteObject"
    /\ req.status = 204
    /\ FileEntries # BackendFiles

-----------------------------------------------------------------------------
(* Claims about prefixes that hold LIKE wildcards *)

\* the call that returned is one the claim names: DeleteDanglingFiles,
\* ListDanglingDirs, SetProcessed with recursive, Delete of a directory path
PrefixScopedCall ==
    /\ lastOp.done
    /\ \/ lastOp.op \in {"DeleteDanglingFiles", "ListDanglingDirs"}
       \/ lastOp.op = "SetProcessed" /\ lastOp.args[2]
       \/ lastOp.op = "Delete"
    /\ HasSuffix(lastOp.args[1], Slash)

\* the rows of pre that are gone from c or differ in it
Touched(pre, c) == {p \in DOMAIN pre : p \notin DOMAIN c \/ c[p] # pre[p]}

\* C38: the prefix-scoped operations of the cache read or change only
\* entries whose path literally begins with the string P, also when P
\* contains the characters '_' or '%'.
C38_PrefixLiteral ==
    PrefixScopedCall =>
        LET P == lastOp.args[1]
        IN  /\ \A p \in Touched(lastOp.pre, cache) : HasPrefix(p, P)
            /\ lastOp.op = "ListDanglingDirs" =>
                  \A i \in 1..Len(lastOp.res.dirs) : HasPrefix(lastOp.res.dirs[i], P)

\* SetProcessed("b/_/", true, v) has flipped the row of b/d/g
C38_TouchedOutside ==
    /\ PrefixScopedCall
    /\ lastOp.op = "SetProcessed"
    /\ lastOp.args[1] = pW
    /\ pG \in Touched(lastOp.pre, cache)

-----------------------------------------------------------------------------
(* The SFTP backend: sftpFs.withReconnect and sftpFs.WriteStream *)

\* the errors of the SFTP client in the model, "" is nil
SftpErrors == {"connection lost", "unexpected EOF", "permission denied"}

\* isConnectionError: the text holds "connection", "EOF", "broken pipe" or
\* "network"
isConnectionError(err) == err \in {"connection lost", "unexpected EOF"}

\* what the server does to one run of the operation: nothing, or it fails
\* Create, or it fails the copy after io.Copy has taken `consumed` bytes from
\* the stream and written `written` of them, or it fails Chmod
SftpFault(at, err, consumed, written) ==
    [at |-> at, err |-> err, consumed |-> consumed, written |-> written]

NoFault == SftpFault("none", "", 0, 0)

\* the function WriteStream passes to withReconnect, run on what is left of
\* the stream: [err, file, stream], file the content of the path afterwards
\* (old when Create failed); an error of MkdirAll is dropped
WriteOperation(stream, old, mode, fault) ==
    IF fault.at = "create" THEN [err |-> fault.err, file |-> old, stream |-> stream]
    ELSE IF fault.at = "copy" /\ fault.consumed <= Len(stream)
    THEN [err |-> fault.err,
          file |-> SubSeq(stream, 1, fault.written),
          stream |-> SubSeq(stream, fault.consumed + 1, Len(stream))]
    ELSE IF fault.at = "chmod" /\ mode # 0
    THEN [err |-> fault.err, file |-> stream, stream |-> <<>>]
    ELSE [err |-> "", file |-> stream, stream |-> <<>>]

\* a call of sftpFs.WriteStream(path, stream, n, mode) and what the server
\* does to its first run, to the reconnect and to the second run
SftpCall(body, mode, first, reconnects, second) ==
    [op |-> "SftpWriteStream", args |-> <<body, mode, first, reconnects, second>>,
     ok |-> FALSE, done |-> FALSE, pc |-> "run", stream |-> body, file |-> <<"o">>,
     runs |-> 0, reconnected |-> 0, err |-> ""]

\* withReconnect, lines 116-118 and 125-127: the operation runs; after the
\* first run a connection error leads to a reconnect, everything else is
\* returned
SftpRun ==
    /\ lastOp.op = "SftpWriteStream"
    /\ ~lastOp.done
    /\ lastOp.pc = "run"
    /\ LET fault == IF lastOp.runs = 0 THEN lastOp.args[3] ELSE lastOp.args[5]
           r == WriteOperation(lastOp.stream, lastOp.file, lastOp.args[2], fault)
           again == lastOp.runs = 0 /\ r.err # "" /\ isConnectionError(r.err)
       IN  lastOp' = [lastOp EXCEPT !.runs = @ + 1, !.stream = r.stream,
                                    !.file = r.file, !.err = r.err,
                                    !.pc = IF again THEN "reconnect" ELSE "returned",
                                    !.done = ~again, !.ok = ~again /\ r.err = ""]
    /\ UNCHANGED <<cl, req, cache, now, fsDirs, fsFiles, fsFail, drv, queue, pending, wk, hist>>

\* withReconnect, lines 120-124: fs.reconnect(); when it fails its error is
\* returned
SftpReconnect ==
    /\ lastOp.op = "SftpWriteStream"
    /\ lastOp.pc = "reconnect"
    /\ lastOp' = IF lastOp.args[4]
                 THEN [lastOp EXCEPT !.reconnected = @ + 1, !.pc = "run"]
                 ELSE [lastOp EXCEPT !.reconnected = @ + 1, !.pc = "returned",
                                     !.done = TRUE, !.ok = FALSE,
                                     !.err = "reconnection failed"]
    /\ UNCHANGED <<cl, req, cache, now, fsDirs, fsFiles, fsFail, drv, queue, pending, wk, hist>>

\* the request bodies: the prefixes of Body
SftpBodies == {SubSeq(Body, 1, n) : n \in 0..Len(Body)}

\* what the server may do to one run
SftpFaults ==
    {NoFault}
    \cup {SftpFault(at, err, 0, 0) : at \in {"create", "chmod"}, err \in SftpErrors}
    \cup {SftpFault("copy", err, c, w) :
            err \in SftpErrors, c \in 0..Len(Body), w \in 0..Len(Body)}

InitSftp ==
    /\ cache = EmptyCache
    /\ now = 0
    /\ lastOp \in {SftpCall(body, mode, first, reconnects, second) :
                     body \in SftpBodies, mode \in {0, 420},
                     first \in {f \in SftpFaults : f.written <= f.consumed},
                     reconnects \in BOOLEAN,
                     second \in {f \in SftpFaults : f.written <= f.consumed}}
    /\ fsDirs = {}
    /\ fsFiles = EmptyCache
    /\ SyncIdle

\* one call of sftpFs.WriteStream, with any failures of the server
SpecSftp == InitSftp /\ [][SftpRun \/ SftpReconnect]_vars

-----------------------------------------------------------------------------
(* Claims about the SFTP backend *)

\* WriteStream has returned
SftpReturned == lastOp.op = "SftpWriteStream" /\ lastOp.done

\* the operation ran at most twice, with at most one reconnect
SftpAtMostTwice ==
    lastOp.op = "SftpWriteStream" => (lastOp.runs <= 2 /\ lastOp.reconnected <= 1)

\* C39: an operation wrapped by withReconnect is executed at most twice and
\* triggers at most one reconnect, and whenever WriteStream returns success,
\* also after a connection error and a retry in the middle of the copy, the
\* file on the backend contains the entire request stream from its first byte.
C39_RetryKeepsWrite ==
    /\ SftpAtMostTwice
    /\ (SftpReturned /\ lastOp.ok) => lastOp.file = lastOp.args[1]

\* WriteStream returned nil after a retry and the file lacks the first bytes
\* of the body
C39_Truncated ==
    /\ SftpReturned
    /\ lastOp.ok
    /\ lastOp.runs = 2
    /\ lastOp.args[1] = Body
    /\ lastOp.file = Tail(Body)

==============================================================================
